---- MODULE Spec2Model ----
(***************************************************************************)
(* ByteArray (balciseri/asdata): a growable byte buffer with a read/write  *)
(* cursor, endian-aware primitive reads and writes, a variable-length      *)
(* unsigned integer reader and a hand-written UTF-8 encoder/decoder.       *)
(*                                                                         *)
(* Representation.  An ArrayBuffer is the sequence of its bytes (index 0   *)
(* of the buffer is element 1 of the sequence).  A DataView is the record  *)
(* [buffer, byteOffset, byteLength].  A ByteArray is the record            *)
(* [position, write_position, endian, data].  A method is an operator from *)
(* the cursor (and its arguments) to the record [c, status, value]: the    *)
(* cursor the call leaves behind, how the call ended ("ok" or the error    *)
(* thrown) and the value returned, always a tuple (<<>> for none).  A      *)
(* call that throws leaves behind whatever it had assigned before the      *)
(* throw.                                                                  *)
(*                                                                         *)
(* Numbers.  A signed or unsigned integer of at most 31 bits is itself.    *)
(* An unsigned 32-bit value is the record [hi, lo] of its two 16-bit       *)
(* halves (value = hi * 65536 + lo).  A float is the tuple of the bytes of *)
(* its IEEE-754 bit pattern, most significant byte first.  A string is the *)
(* sequence of its UTF-16 code units.                                      *)
(***************************************************************************)
EXTENDS Integers, Sequences, FiniteSets, TLC

VARIABLES ba, last, nops, pc, input, output

vars == <<ba, last, nops, pc, input, output>>

(***************************************************************************)
(* Static constants of the class                                           *)
(***************************************************************************)
BIG_ENDIAN == "bigEndian"
LITTLE_ENDIAN == "littleEndian"

SIZE_OF_BOOLEAN == 1
SIZE_OF_INT8 == 1
SIZE_OF_INT16 == 2
SIZE_OF_INT32 == 4
SIZE_OF_UINT8 == 1
SIZE_OF_UINT16 == 2
SIZE_OF_UINT32 == 4
SIZE_OF_FLOAT32 == 4
SIZE_OF_FLOAT64 == 8
BUFFER_EXT_SIZE == 1024
eof_byte == -1
eof_code_point == -1

(***************************************************************************)
(* How a call ends                                                         *)
(***************************************************************************)
OK == "ok"
EOF == "Error #2030: End of file was encountered."
RANGE_ERROR == "RangeError"
ENCODING_ERROR == "EncodingError"

Ok(c, v) == [c |-> c, status |-> OK, value |-> v]
Throw(c, e) == [c |-> c, status |-> e, value |-> <<>>]

Max(a, b) == IF a > b THEN a ELSE b

(***************************************************************************)
(* ArrayBuffer and DataView                                                *)
(***************************************************************************)
ArrayBuffer(n) == [i \in 1..n |-> 0]

DataView(buffer, offset, length) ==
  [buffer |-> buffer, byteOffset |-> offset, byteLength |-> length]

\* The bounds check every DataView accessor makes before it touches a byte.
InView(d, off, n) == off >= 0 /\ off + n <= d.byteLength

\* The n bytes at view offset off, in stream order.
getBytes(d, off, n) == SubSeq(d.buffer, d.byteOffset + off + 1, d.byteOffset + off + n)

\* The view with the bytes bs stored at view offset off, in stream order.
setBytes(d, off, bs) ==
  [d EXCEPT !.buffer =
     SubSeq(d.buffer, 1, d.byteOffset + off)
       \o bs
       \o SubSeq(d.buffer, d.byteOffset + off + Len(bs) + 1, Len(d.buffer))]

Reverse(s) == [i \in 1..Len(s) |-> s[Len(s) + 1 - i]]

\* Stream order <-> most-significant-byte-first order.
Msf(bs, littleEndian) == IF littleEndian THEN Reverse(bs) ELSE bs

\* Byte k (0 = least significant) of the two's complement form of v.
ByteAt(v, k) == (v \div (256 ^ k)) % 256

\* The n bytes of integer v, most significant first (ToUint8/16/32 of v).
IntBytes(v, n) == [i \in 1..n |-> ByteAt(v, n - i)]

Signed8(b) == IF b >= 128 THEN b - 256 ELSE b

getUint8(d, off) == getBytes(d, off, 1)[1]
getInt8(d, off) == Signed8(getUint8(d, off))

getUint16(d, off, littleEndian) ==
  LET b == Msf(getBytes(d, off, 2), littleEndian) IN b[1] * 256 + b[2]

\* getInt16 without the sign: the 16 bits read as unsigned.
getInt16_unsigned(d, off, littleEndian) ==
  LET b == Msf(getBytes(d, off, 2), littleEndian) IN b[1] * 256 + b[2]

getInt16(d, off, littleEndian) ==
  LET b == Msf(getBytes(d, off, 2), littleEndian) IN Signed8(b[1]) * 256 + b[2]

getInt32(d, off, littleEndian) ==
  LET b == Msf(getBytes(d, off, 4), littleEndian)
  IN  Signed8(b[1]) * 16777216 + b[2] * 65536 + b[3] * 256 + b[4]

getUint32(d, off, littleEndian) ==
  LET b == Msf(getBytes(d, off, 4), littleEndian)
  IN  [hi |-> b[1] * 256 + b[2], lo |-> b[3] * 256 + b[4]]

\* A float32 pattern (most significant byte first) that is a NaN: exponent
\* all ones and a nonzero fraction.
IsNaN32(b) ==
  /\ b[1] % 128 = 127
  /\ b[2] >= 128
  /\ (b[2] % 128 # 0 \/ b[3] # 0 \/ b[4] # 0)

\* A float32 read from a DataView or a Float32Array becomes a number.  For
\* the bytes of a NaN the number is NaN, and the float32 encoding it has
\* when it is stored again (setFloat32, an element of a Float32Array) is
\* the implementation's choice: the engine gives the quiet NaN with the
\* same sign and payload (fraction bit 22 set) where it widens the float32
\* to a double, and the pattern unchanged where it keeps the float32.  quiet
\* is that choice.  Every other pattern is kept.
numberOfFloat32(b, quiet) ==
  IF IsNaN32(b) /\ quiet /\ (b[2] \div 64) % 2 = 0
  THEN [b EXCEPT ![2] = @ + 64]
  ELSE b

getFloat32(d, off, littleEndian, quiet) ==
  numberOfFloat32(Msf(getBytes(d, off, 4), littleEndian), quiet)
getFloat64(d, off, littleEndian) == Msf(getBytes(d, off, 8), littleEndian)

setUint8(d, off, value) == setBytes(d, off, IntBytes(value, 1))
setInt8(d, off, value) == setBytes(d, off, IntBytes(value, 1))

setUint16(d, off, value, littleEndian) ==
  setBytes(d, off, Msf(IntBytes(value, 2), littleEndian))

setInt16(d, off, value, littleEndian) ==
  setBytes(d, off, Msf(IntBytes(value, 2), littleEndian))

setInt32(d, off, value, littleEndian) ==
  setBytes(d, off, Msf(IntBytes(value, 4), littleEndian))

setUint32(d, off, value, littleEndian) ==
  setBytes(d, off, Msf(IntBytes(value.hi, 2) \o IntBytes(value.lo, 2), littleEndian))

setFloat32(d, off, value, littleEndian) == setBytes(d, off, Msf(value, littleEndian))
setFloat64(d, off, value, littleEndian) == setBytes(d, off, Msf(value, littleEndian))

(***************************************************************************)
(* Construction                                                            *)
(***************************************************************************)
\* new ByteArray(): buffer === undefined.
NewByteArray ==
  [position |-> 0, write_position |-> 0, endian |-> BIG_ENDIAN,
   data |-> DataView(ArrayBuffer(BUFFER_EXT_SIZE), 0, BUFFER_EXT_SIZE)]

\* The constructor taking the length from the buffer, whatever length is.
ByteArrayOver_bufferLength(buffer, offset, length) ==
  [position |-> 0,
   write_position |-> Len(buffer),
   endian |-> BIG_ENDIAN,
   data |-> DataView(buffer, offset, IF length > 0 THEN length ELSE Len(buffer))]

\* new ByteArray(buffer, offset, length) over a supplied buffer.
ByteArrayOver(buffer, offset, length) ==
  [position |-> 0,
   write_position |-> IF length > 0 THEN length ELSE Len(buffer),
   endian |-> BIG_ENDIAN,
   data |-> DataView(buffer, offset, IF length > 0 THEN length ELSE Len(buffer))]

\* new DataView(buffer, offset, length) throws outside these arguments.
ValidRegion(buffer, offset, length) ==
  /\ offset >= 0 /\ offset <= Len(buffer)
  /\ offset + (IF length > 0 THEN length ELSE Len(buffer)) <= Len(buffer)

(***************************************************************************)
(* Position, length, validation and growth                                 *)
(***************************************************************************)
LittleEndian(c) == c.endian = LITTLE_ENDIAN

bytesAvailable(c) == c.data.byteLength - c.position

\* get bufferOffset()
bufferOffset(c) == c.data.byteOffset

\* validate(len) with the bound off by one: the last byte cannot be read.
validate_offByOne(c, len) ==
  c.data.byteLength > 0 /\ c.position + len < c.data.byteLength

\* validate(len): true, or the end-of-file error (thrown by the caller here).
validate(c, len) == c.data.byteLength > 0 /\ c.position + len <= c.data.byteLength

\* set position(value) with length overwritten by the value rather than
\* raised to it: a backward assignment lowers length.
set_position_assigning(c, value) ==
  IF c.position < value /\ ~validate(c, c.position - value)
  THEN Throw(c, EOF)
  ELSE Ok([c EXCEPT !.position = value, !.write_position = value], <<>>)

\* set position(value)
set_position(c, value) ==
  IF c.position < value /\ ~validate(c, c.position - value)
  THEN Throw(c, EOF)
  ELSE Ok([c EXCEPT !.position = value,
                    !.write_position = IF value > @ THEN value ELSE @], <<>>)

\* this.position += n; return v
Advance(c, n, v) ==
  LET s == set_position(c, c.position + n)
  IN  IF s.status = OK THEN Ok(s.c, v) ELSE s

\* validateBuffer(len)
validateBuffer(c, len) ==
  LET c1 == [c EXCEPT !.write_position = IF len > @ THEN len ELSE @]
  IN  IF c1.data.byteLength < len
      THEN IF Len(c1.data.buffer) > len + BUFFER_EXT_SIZE
           THEN Throw(c1, RANGE_ERROR)   \* tmp.set(source longer than tmp)
           ELSE Ok([c1 EXCEPT !.data =
                      DataView(c1.data.buffer
                                 \o ArrayBuffer(len + BUFFER_EXT_SIZE - Len(c1.data.buffer)),
                               0, len + BUFFER_EXT_SIZE)], <<>>)
      ELSE Ok(c1, <<>>)

\* set length(value)
set_length(c, value) == validateBuffer(c, value)

\* clear()
clear(c) == Ok([c EXCEPT !.position = 0], <<>>)

\* endian = value (a public field)
set_endian(c, value) == Ok([c EXCEPT !.endian = value], <<>>)

(***************************************************************************)
(* Single-field reads: validate, read at position, advance                 *)
(***************************************************************************)
\* return this.data.getUint8(this.position++) and its siblings: the position
\* is advanced first, the byte at the old position is read next.
PostIncrement(c) == set_position(c, c.position + 1)

readBoolean(c) ==
  IF ~validate(c, SIZE_OF_BOOLEAN) THEN Throw(c, EOF)
  ELSE LET s == PostIncrement(c)
       IN  IF s.status # OK THEN s
           ELSE IF ~InView(s.c.data, c.position, 1) THEN Throw(s.c, RANGE_ERROR)
           ELSE Ok(s.c, <<getUint8(s.c.data, c.position) # 0>>)

readByte(c) ==
  IF ~validate(c, SIZE_OF_INT8) THEN Throw(c, EOF)
  ELSE LET s == PostIncrement(c)
       IN  IF s.status # OK THEN s
           ELSE IF ~InView(s.c.data, c.position, 1) THEN Throw(s.c, RANGE_ERROR)
           ELSE Ok(s.c, <<getInt8(s.c.data, c.position)>>)

readUnsignedByte(c) ==
  IF ~validate(c, SIZE_OF_UINT8) THEN Throw(c, EOF)
  ELSE LET s == PostIncrement(c)
       IN  IF s.status # OK THEN s
           ELSE IF ~InView(s.c.data, c.position, 1) THEN Throw(s.c, RANGE_ERROR)
           ELSE Ok(s.c, <<getUint8(s.c.data, c.position)>>)

readShort(c) ==
  IF ~validate(c, SIZE_OF_INT16) THEN Throw(c, EOF)
  ELSE IF ~InView(c.data, c.position, 2) THEN Throw(c, RANGE_ERROR)
  ELSE Advance(c, SIZE_OF_INT16, <<getInt16(c.data, c.position, LittleEndian(c))>>)

readUnsignedShort(c) ==
  IF ~validate(c, SIZE_OF_UINT16) THEN Throw(c, EOF)
  ELSE IF ~InView(c.data, c.position, 2) THEN Throw(c, RANGE_ERROR)
  ELSE Advance(c, SIZE_OF_UINT16, <<getUint16(c.data, c.position, LittleEndian(c))>>)

readInt(c) ==
  IF ~validate(c, SIZE_OF_INT32) THEN Throw(c, EOF)
  ELSE IF ~InView(c.data, c.position, 4) THEN Throw(c, RANGE_ERROR)
  ELSE Advance(c, SIZE_OF_INT32, <<getInt32(c.data, c.position, LittleEndian(c))>>)

readUnsignedInt(c) ==
  IF ~validate(c, SIZE_OF_UINT32) THEN Throw(c, EOF)
  ELSE IF ~InView(c.data, c.position, 4) THEN Throw(c, RANGE_ERROR)
  ELSE Advance(c, SIZE_OF_UINT32, <<getUint32(c.data, c.position, LittleEndian(c))>>)

readFloat(c, quiet) ==
  IF ~validate(c, SIZE_OF_FLOAT32) THEN Throw(c, EOF)
  ELSE IF ~InView(c.data, c.position, 4) THEN Throw(c, RANGE_ERROR)
  ELSE Advance(c, SIZE_OF_FLOAT32, <<getFloat32(c.data, c.position, LittleEndian(c), quiet)>>)

readDouble(c) ==
  IF ~validate(c, SIZE_OF_FLOAT64) THEN Throw(c, EOF)
  ELSE IF ~InView(c.data, c.position, 8) THEN Throw(c, RANGE_ERROR)
  ELSE Advance(c, SIZE_OF_FLOAT64, <<getFloat64(c.data, c.position, LittleEndian(c))>>)

\* readStandardString(length): one code unit per byte.
RECURSIVE readStandardStringLoop(_, _, _)
readStandardStringLoop(c, n, str) ==
  IF n <= 0 THEN Ok(c, str)
  ELSE LET s == PostIncrement(c)
       IN  IF s.status # OK THEN s
           ELSE IF ~InView(s.c.data, c.position, 1) THEN Throw(s.c, RANGE_ERROR)
           ELSE readStandardStringLoop(s.c, n - 1,
                                       Append(str, getUint8(s.c.data, c.position)))

readStandardString(c, length) ==
  IF ~validate(c, length) THEN Throw(c, EOF)
  ELSE readStandardStringLoop(c, length, <<>>)

(***************************************************************************)
(* Reads made of several steps                                             *)
(***************************************************************************)
\* readInt64 and readUnsignedInt64 validate SIZE_OF_UINT32 and read two words.
readInt64(c) ==
  IF ~validate(c, SIZE_OF_UINT32) THEN Throw(c, EOF)
  ELSE IF ~InView(c.data, c.position, 4) THEN Throw(c, RANGE_ERROR)
  ELSE LET low == getInt32(c.data, c.position, LittleEndian(c))
           s1  == Advance(c, SIZE_OF_INT32, <<>>)
       IN  IF s1.status # OK THEN s1
           ELSE IF ~InView(s1.c.data, s1.c.position, 4) THEN Throw(s1.c, RANGE_ERROR)
           ELSE Advance(s1.c, SIZE_OF_INT32,
                        <<[low |-> low,
                           high |-> getInt32(s1.c.data, s1.c.position, LittleEndian(c))]>>)

readUnsignedInt64(c) ==
  IF ~validate(c, SIZE_OF_UINT32) THEN Throw(c, EOF)
  ELSE IF ~InView(c.data, c.position, 4) THEN Throw(c, RANGE_ERROR)
  ELSE LET low == getUint32(c.data, c.position, LittleEndian(c))
           s1  == Advance(c, SIZE_OF_UINT32, <<>>)
       IN  IF s1.status # OK THEN s1
           ELSE IF ~InView(s1.c.data, s1.c.position, 4) THEN Throw(s1.c, RANGE_ERROR)
           ELSE Advance(s1.c, SIZE_OF_UINT32,
                        <<[low |-> low,
                           high |-> getUint32(s1.c.data, s1.c.position, LittleEndian(c))]>>)

\* readVariableSizedUnsignedInt() reading its short form through the endian
\* setting, as readUnsignedShort does.
readVariableSizedUnsignedInt_endian(c) ==
  LET r0 == readUnsignedByte(c)
  IN  IF r0.status # OK THEN r0
      ELSE IF r0.value[1] # 255
      THEN LET r1 == readUnsignedByte(r0.c)
           IN  IF r1.status # OK THEN r1
               ELSE Ok(r1.c, <<IF LittleEndian(c)
                               THEN r1.value[1] * 256 + r0.value[1]
                               ELSE r0.value[1] * 256 + r1.value[1]>>)
      ELSE LET r1 == readUnsignedByte(r0.c)
           IN  IF r1.status # OK THEN r1
               ELSE LET r2 == readUnsignedByte(r1.c)
                    IN  IF r2.status # OK THEN r2
                        ELSE LET r3 == readUnsignedByte(r2.c)
                             IN  IF r3.status # OK THEN r3
                                 ELSE Ok(r3.c, <<r1.value[1] * 65536
                                                 + r2.value[1] * 256 + r3.value[1]>>)

\* readVariableSizedUnsignedInt(): the VX reader, byte by byte.
readVariableSizedUnsignedInt(c) ==
  LET r0 == readUnsignedByte(c)
  IN  IF r0.status # OK THEN r0
      ELSE IF r0.value[1] # 255
      THEN LET r1 == readUnsignedByte(r0.c)
           IN  IF r1.status # OK THEN r1
               ELSE Ok(r1.c, <<r0.value[1] * 256 + r1.value[1]>>)
      ELSE LET r1 == readUnsignedByte(r0.c)
           IN  IF r1.status # OK THEN r1
               ELSE LET r2 == readUnsignedByte(r1.c)
                    IN  IF r2.status # OK THEN r2
                        ELSE LET r3 == readUnsignedByte(r2.c)
                             IN  IF r3.status # OK THEN r3
                                 ELSE Ok(r3.c, <<r1.value[1] * 65536
                                                 + r2.value[1] * 256 + r3.value[1]>>)

\* readU16VX()
readU16VX(c) ==
  LET r0 == readUnsignedByte(c)
  IN  IF r0.status # OK THEN r0
      ELSE LET r1 == readUnsignedByte(r0.c)
           IN  IF r1.status # OK THEN r1
               ELSE Ok(r1.c, <<r0.value[1] * 256 + r1.value[1]>>)

\* readStringTillNull(keepEvenByte)
RECURSIVE readStringTillNullLoop(_, _, _, _)
readStringTillNullLoop(c, keepEvenByte, str, num) ==
  IF ~(bytesAvailable(c) > 0) THEN Ok(c, str)
  ELSE LET s == PostIncrement(c)
       IN  IF s.status # OK THEN s
           ELSE IF ~InView(s.c.data, c.position, 1) THEN Throw(s.c, RANGE_ERROR)
           ELSE LET byte == getUint8(s.c.data, c.position)
                IN  IF byte # 0
                    THEN readStringTillNullLoop(s.c, keepEvenByte, Append(str, byte), num + 1)
                    ELSE IF keepEvenByte /\ (num + 1) % 2 # 0
                         THEN Advance(s.c, 1, str)
                         ELSE Ok(s.c, str)

readStringTillNull(c, keepEvenByte) == readStringTillNullLoop(c, keepEvenByte, <<>>, 0)

(***************************************************************************)
(* Single-field writes: validateBuffer(size), store at position, advance   *)
(***************************************************************************)
writeBoolean(c, value) ==
  LET r == validateBuffer(c, SIZE_OF_BOOLEAN)
  IN  IF r.status # OK THEN r
      ELSE LET s == PostIncrement(r.c)
           IN  IF s.status # OK THEN s
               ELSE IF ~InView(s.c.data, r.c.position, 1) THEN Throw(s.c, RANGE_ERROR)
               ELSE Ok([s.c EXCEPT !.data =
                          setUint8(@, r.c.position, IF value THEN 1 ELSE 0)], <<>>)

writeByte(c, value) ==
  LET r == validateBuffer(c, SIZE_OF_INT8)
  IN  IF r.status # OK THEN r
      ELSE LET s == PostIncrement(r.c)
           IN  IF s.status # OK THEN s
               ELSE IF ~InView(s.c.data, r.c.position, 1) THEN Throw(s.c, RANGE_ERROR)
               ELSE Ok([s.c EXCEPT !.data = setInt8(@, r.c.position, value)], <<>>)

writeUnsignedByte(c, value) ==
  LET r == validateBuffer(c, SIZE_OF_UINT8)
  IN  IF r.status # OK THEN r
      ELSE LET s == PostIncrement(r.c)
           IN  IF s.status # OK THEN s
               ELSE IF ~InView(s.c.data, r.c.position, 1) THEN Throw(s.c, RANGE_ERROR)
               ELSE Ok([s.c EXCEPT !.data = setUint8(@, r.c.position, value)], <<>>)

writeShort(c, value) ==
  LET r == validateBuffer(c, SIZE_OF_INT16)
  IN  IF r.status # OK THEN r
      ELSE IF ~InView(r.c.data, r.c.position, 2) THEN Throw(r.c, RANGE_ERROR)
      ELSE Advance([r.c EXCEPT !.data = setInt16(@, r.c.position, value, LittleEndian(c))],
                   SIZE_OF_INT16, <<>>)

writeUnsignedShort(c, value) ==
  LET r == validateBuffer(c, SIZE_OF_UINT16)
  IN  IF r.status # OK THEN r
      ELSE IF ~InView(r.c.data, r.c.position, 2) THEN Throw(r.c, RANGE_ERROR)
      ELSE Advance([r.c EXCEPT !.data = setUint16(@, r.c.position, value, LittleEndian(c))],
                   SIZE_OF_UINT16, <<>>)

writeInt(c, value) ==
  LET r == validateBuffer(c, SIZE_OF_INT32)
  IN  IF r.status # OK THEN r
      ELSE IF ~InView(r.c.data, r.c.position, 4) THEN Throw(r.c, RANGE_ERROR)
      ELSE Advance([r.c EXCEPT !.data = setInt32(@, r.c.position, value, LittleEndian(c))],
                   SIZE_OF_INT32, <<>>)

writeUnsignedInt(c, value) ==
  LET r == validateBuffer(c, SIZE_OF_UINT32)
  IN  IF r.status # OK THEN r
      ELSE IF ~InView(r.c.data, r.c.position, 4) THEN Throw(r.c, RANGE_ERROR)
      ELSE Advance([r.c EXCEPT !.data = setUint32(@, r.c.position, value, LittleEndian(c))],
                   SIZE_OF_UINT32, <<>>)

writeFloat(c, value) ==
  LET r == validateBuffer(c, SIZE_OF_FLOAT32)
  IN  IF r.status # OK THEN r
      ELSE IF ~InView(r.c.data, r.c.position, 4) THEN Throw(r.c, RANGE_ERROR)
      ELSE Advance([r.c EXCEPT !.data = setFloat32(@, r.c.position, value, LittleEndian(c))],
                   SIZE_OF_FLOAT32, <<>>)

writeDouble(c, value) ==
  LET r == validateBuffer(c, SIZE_OF_FLOAT64)
  IN  IF r.status # OK THEN r
      ELSE IF ~InView(r.c.data, r.c.position, 8) THEN Throw(r.c, RANGE_ERROR)
      ELSE Advance([r.c EXCEPT !.data = setFloat64(@, r.c.position, value, LittleEndian(c))],
                   SIZE_OF_FLOAT64, <<>>)

\* writeUint8Array(_bytes)
RECURSIVE writeUint8ArrayLoop(_, _, _)
writeUint8ArrayLoop(c, bytes, i) ==
  IF i > Len(bytes) THEN Ok(c, <<>>)
  ELSE LET s == PostIncrement(c)
       IN  IF s.status # OK THEN s
           ELSE IF ~InView(s.c.data, c.position, 1) THEN Throw(s.c, RANGE_ERROR)
           ELSE writeUint8ArrayLoop([s.c EXCEPT !.data = setUint8(@, c.position, bytes[i])],
                                    bytes, i + 1)

writeUint8Array(c, bytes) ==
  LET r == validateBuffer(c, c.position + Len(bytes))
  IN  IF r.status # OK THEN r ELSE writeUint8ArrayLoop(r.c, bytes, 1)

\* A cursor argument _bytes (the source of writeBytes, the destination of
\* readBytes) is [kind |-> "this"], the cursor the method is called on;
\* [kind |-> "shared", c |-> b], another cursor b over the same ArrayBuffer
\* (the bytes are those of the called cursor's buffer, b.data.buffer is not
\* looked at); [kind |-> "other", c |-> b], a cursor b with an ArrayBuffer
\* of its own; or, for readBytes, [kind |-> "null"].
\*
\* writeBytes(_bytes, offset, length): for i < _bytes.length,
\* this.data.setUint8(this.position++, tmp_data.getUint8(i)), where tmp_data
\* is new DataView(_bytes.buffer), the whole backing buffer of the source.
\* _bytes.length and the bytes are read at each turn, so they follow the
\* writes when the source is the cursor itself or shares its buffer.
RECURSIVE writeBytesLoop(_, _, _)
writeBytesLoop(c, bytes, i) ==
  IF i >= (IF bytes.kind = "this" THEN c.write_position ELSE bytes.c.write_position)
  THEN Ok(c, <<>>)
  ELSE LET s == PostIncrement(c)
           src == IF bytes.kind = "other" THEN bytes.c.data.buffer ELSE s.c.data.buffer
       IN  IF s.status # OK THEN s
           ELSE IF i >= Len(src) THEN Throw(s.c, RANGE_ERROR)
           ELSE IF ~InView(s.c.data, c.position, 1) THEN Throw(s.c, RANGE_ERROR)
           ELSE writeBytesLoop([s.c EXCEPT !.data = setUint8(@, c.position, src[i + 1])],
                               bytes, i + 1)

\* The offset argument is not used; length only sizes the storage.  When
\* validateBuffer reallocates, the cursor gets a new ArrayBuffer: a source
\* that shared the old one keeps it, and the cursor as its own source is
\* read from the new one.
writeBytes(c, bytes, offset, length) ==
  LET r == validateBuffer(c, length)
      source == IF bytes.kind = "shared"
                THEN IF c.data.byteLength < length
                     THEN [kind |-> "other",
                           c |-> [bytes.c EXCEPT !.data.buffer = c.data.buffer]]
                     ELSE bytes
                ELSE bytes
  IN  IF r.status # OK THEN r ELSE writeBytesLoop(r.c, source, 0)

(***************************************************************************)
(* Replacing the storage                                                   *)
(***************************************************************************)
\* set buffer(value): this.data = new DataView(value)
set_buffer(c, value) == Ok([c EXCEPT !.data = DataView(value, 0, Len(value))], <<>>)

\* set dataView(value)
set_dataView(c, value) ==
  Ok([c EXCEPT !.data = value, !.write_position = value.byteLength], <<>>)

\* setBuffer(buffer, offset, length) with a buffer.  new DataView throws
\* before anything is assigned.
setBuffer(c, buffer, offset, length) ==
  IF ~ValidRegion(buffer, offset, length) THEN Throw(c, RANGE_ERROR)
  ELSE Ok([c EXCEPT !.data = DataView(buffer, offset,
                                      IF length > 0 THEN length ELSE Len(buffer)),
                    !.write_position = IF length > 0 THEN length ELSE Len(buffer),
                    !.position = 0], <<>>)

\* setBuffer(null): the storage stays, length and position become 0.
setBuffer_null(c) == Ok([c EXCEPT !.write_position = 0, !.position = 0], <<>>)

\* setArray(array), array a Uint8Array over [buffer, byteOffset, byteLength]
setArray(c, array) == setBuffer(c, array.buffer, array.byteOffset, array.byteLength)

(***************************************************************************)
(* readBytes                                                               *)
(***************************************************************************)
\* The copy loop: _bytes.data.setUint8(i + offset,
\* this.data.getUint8(this.position++)), for i < length.  A destination
\* that is the cursor itself or shares its buffer is written in the buffer
\* the loop is reading.
RECURSIVE readBytesLoop(_, _, _, _, _)
readBytesLoop(c, bytes, offset, length, i) ==
  IF i >= length THEN Ok(c, <<bytes>>)
  ELSE LET s == PostIncrement(c)
       IN  IF s.status # OK THEN s
           ELSE IF ~InView(s.c.data, c.position, 1) THEN Throw(s.c, RANGE_ERROR)
           ELSE LET v == getUint8(s.c.data, c.position)
                    d == CASE bytes.kind = "this" -> s.c.data
                           [] bytes.kind = "shared"
                                -> [bytes.c.data EXCEPT !.buffer = s.c.data.buffer]
                           [] bytes.kind = "other" -> bytes.c.data
                    stored == setUint8(d, i + offset, v)
                IN  IF ~InView(d, i + offset, 1) THEN Throw(s.c, RANGE_ERROR)
                    ELSE CASE bytes.kind = "this"
                                -> readBytesLoop([s.c EXCEPT !.data = stored],
                                                 bytes, offset, length, i + 1)
                           [] bytes.kind = "shared"
                                -> readBytesLoop(
                                     [s.c EXCEPT !.data.buffer = stored.buffer],
                                     [bytes EXCEPT !.c.data = stored],
                                     offset, length, i + 1)
                           [] bytes.kind = "other"
                                -> readBytesLoop(s.c, [bytes EXCEPT !.c.data = stored],
                                                 offset, length, i + 1)

\* readBytes(_bytes, offset, length, createNewBuffer).  The value is the
\* cursor returned: for a null destination [kind |-> "copy", elements] (the
\* buffer of the new cursor) or [kind |-> "view", byteOffset, byteLength]
\* (the DataView given to the new cursor); otherwise the destination as the
\* call left it.  Without a new buffer the destination's dataView becomes a
\* view of this cursor's buffer, which it shares from then on.
readBytes(c, bytes, offset, length, createNewBuffer) ==
  IF length # 0 /\ ~validate(c, length) THEN Throw(c, EOF)
  ELSE LET n == IF length = 0 THEN bytesAvailable(c) ELSE length
       IN  IF createNewBuffer
           THEN IF bytes.kind = "null"
                THEN IF n < 0 THEN Throw(c, RANGE_ERROR)   \* new ArrayBuffer(negative)
                     ELSE LET r == readBytesLoop(
                                     c, [kind |-> "other",
                                         c |-> ByteArrayOver(ArrayBuffer(n), 0, 0)],
                                     offset, n, 0)
                          IN  IF r.status # OK THEN r
                              ELSE Ok(r.c, <<[kind |-> "copy",
                                              elements |-> r.value[1].c.data.buffer]>>)
                ELSE readBytesLoop(c, bytes, offset, n, 0)
           ELSE IF \/ n < 0
                   \/ bufferOffset(c) + c.position < 0
                   \/ bufferOffset(c) + c.position + n > Len(c.data.buffer)
           THEN Throw(c, RANGE_ERROR)   \* new DataView outside the buffer
           ELSE LET view == DataView(c.data.buffer, bufferOffset(c) + c.position, n)
                IN  CASE bytes.kind = "null"
                           -> Advance(c, n, <<[kind |-> "view",
                                               byteOffset |-> view.byteOffset,
                                               byteLength |-> n]>>)
                      [] bytes.kind = "this"
                           -> Advance(set_dataView(c, view).c, n, <<bytes>>)
                      [] bytes.kind \in {"shared", "other"}
                           -> Advance(c, n, <<[kind |-> "shared",
                                               c |-> set_dataView(bytes.c, view).c]>>)

(***************************************************************************)
(* UTF-8 encoding and decoding                                             *)
(***************************************************************************)
inRange(a, min, max) == min <= a /\ a <= max

div(n, d) == n \div d

\* stringToCodePoints(stringVar): UTF-16 code units to code points.
\* 55296 = 0xD800, 56319 = 0xDBFF, 56320 = 0xDC00, 57343 = 0xDFFF,
\* 65533 = 0xFFFD, 65536 = 0x10000, 1023 = 0x3FF.
RECURSIVE stringToCodePointsLoop(_, _, _)
stringToCodePointsLoop(stringVar, i, cps) ==
  LET n == Len(stringVar) IN
  IF ~(i < n) THEN cps
  ELSE LET c == stringVar[i + 1] IN
       IF ~inRange(c, 55296, 57343)
       THEN stringToCodePointsLoop(stringVar, i + 1, Append(cps, c))
       ELSE IF inRange(c, 56320, 57343)
       THEN stringToCodePointsLoop(stringVar, i + 1, Append(cps, 65533))
       ELSE IF i = n - 1
       THEN stringToCodePointsLoop(stringVar, i + 1, Append(cps, 65533))
       ELSE LET d == stringVar[i + 2] IN
            IF inRange(d, 56320, 57343)
            THEN stringToCodePointsLoop(stringVar, i + 2,
                     Append(cps, 65536 + (c % 1024) * 1024 + (d % 1024)))
            ELSE stringToCodePointsLoop(stringVar, i + 1, Append(cps, 65533))

stringToCodePoints(stringVar) == stringToCodePointsLoop(stringVar, 0, <<>>)

\* The bytes encodeUTF8 pushes for one code point outside 0xD800-0xDFFF.
\* 127 = 0x7F, 2047 = 0x7FF, 192 = 0xC0, 224 = 0xE0, 240 = 0xF0.
encodeCodePoint(code_point) ==
  IF inRange(code_point, 0, 127) THEN <<code_point>>
  ELSE LET count  == IF inRange(code_point, 128, 2047) THEN 1
                     ELSE IF inRange(code_point, 2048, 65535) THEN 2
                     ELSE 3
           offset == IF inRange(code_point, 128, 2047) THEN 192
                     ELSE IF inRange(code_point, 2048, 65535) THEN 224
                     ELSE 240
       IN  <<div(code_point, 64 ^ count) + offset>>
             \o [k \in 1..count |-> 128 + (div(code_point, 64 ^ (count - k)) % 64)]

\* encodeUTF8(str): [status, value]; encoderError throws for a code point in
\* 0xD800-0xDFFF.
RECURSIVE encodeUTF8Loop(_, _, _)
encodeUTF8Loop(codePoints, pos, outputBytes) ==
  IF ~(Len(codePoints) > pos) THEN [status |-> OK, value |-> outputBytes]
  ELSE LET code_point == codePoints[pos + 1] IN
       IF inRange(code_point, 55296, 57343)
       THEN [status |-> ENCODING_ERROR, value |-> <<>>]
       ELSE encodeUTF8Loop(codePoints, pos + 1, outputBytes \o encodeCodePoint(code_point))

encodeUTF8(str) == encodeUTF8Loop(stringToCodePoints(str), 0, <<>>)

\* decoderError(fatal, opt_code_point): opt_code_point || 0xFFFD.  decodeUTF8
\* passes its constant fatal = false, so the call never throws.  A call
\* without the second argument is modelled with 0, which || treats alike.
decoderError(opt_code_point) == IF opt_code_point # 0 THEN opt_code_point ELSE 65533

\* The "Decode string" step without the surrogate branch: every code point
\* goes through String.fromCharCode, which keeps its low 16 bits.
decodeOutput_truncating(code_point) ==
  IF code_point # <<>> /\ code_point[1] # eof_code_point
  THEN IF code_point[1] % 65536 > 0 THEN <<code_point[1] % 65536>> ELSE <<>>
  ELSE <<>>

\* The code units the "Decode string" step appends for code_point; <<>> is
\* the code's null.
decodeOutput(code_point) ==
  IF code_point # <<>> /\ code_point[1] # eof_code_point
  THEN IF code_point[1] <= 65535
       THEN IF code_point[1] > 0 THEN <<code_point[1]>> ELSE <<>>
       ELSE LET cp == code_point[1] - 65536
            IN  <<55296 + ((cp \div 1024) % 1024), 56320 + (cp % 1024)>>
  ELSE <<>>

\* One turn of decodeUTF8's while loop on _byte, from decoder state st:
\* [st, back, code_point], where back says the loop did pos--.
\* 194 = 0xC2, 223 = 0xDF, 239 = 0xEF, 244 = 0xF4, 191 = 0xBF,
\* 1114111 = 0x10FFFF.
utf8_initial ==
  [utf8_code_point |-> 0, utf8_bytes_needed |-> 0, utf8_bytes_seen |-> 0,
   utf8_lower_boundary |-> 0]

decodeByte(st, byte) ==
  IF byte = eof_byte
  THEN [st |-> st, back |-> FALSE,
        code_point |-> IF st.utf8_bytes_needed # 0 THEN <<decoderError(0)>>
                       ELSE <<eof_code_point>>]
  ELSE IF st.utf8_bytes_needed = 0
  THEN IF inRange(byte, 0, 127)
       THEN [st |-> st, back |-> FALSE, code_point |-> <<byte>>]
       ELSE LET s1 == IF inRange(byte, 194, 223)
                      THEN [st EXCEPT !.utf8_bytes_needed = 1,
                                      !.utf8_lower_boundary = 128,
                                      !.utf8_code_point = byte - 192]
                      ELSE IF inRange(byte, 224, 239)
                      THEN [st EXCEPT !.utf8_bytes_needed = 2,
                                      !.utf8_lower_boundary = 2048,
                                      !.utf8_code_point = byte - 224]
                      ELSE IF inRange(byte, 240, 244)
                      THEN [st EXCEPT !.utf8_bytes_needed = 3,
                                      !.utf8_lower_boundary = 65536,
                                      !.utf8_code_point = byte - 240]
                      ELSE st   \* this.decoderError(fatal): the result is dropped
            IN  [st |-> [s1 EXCEPT !.utf8_code_point = @ * (64 ^ s1.utf8_bytes_needed)],
                 back |-> FALSE, code_point |-> <<>>]
  ELSE IF ~inRange(byte, 128, 191)
  THEN [st |-> utf8_initial, back |-> TRUE, code_point |-> <<decoderError(byte)>>]
  ELSE LET seen == st.utf8_bytes_seen + 1
           cp   == st.utf8_code_point
                     + (byte - 128) * (64 ^ (st.utf8_bytes_needed - seen))
       IN  IF seen # st.utf8_bytes_needed
           THEN [st |-> [st EXCEPT !.utf8_bytes_seen = seen, !.utf8_code_point = cp],
                 back |-> FALSE, code_point |-> <<>>]
           ELSE [st |-> utf8_initial, back |-> FALSE,
                 code_point |->
                   IF inRange(cp, st.utf8_lower_boundary, 1114111)
                      /\ ~inRange(cp, 55296, 57343)
                   THEN <<cp>>
                   ELSE <<decoderError(byte)>>]

\* decodeUTF8(data)
RECURSIVE decodeUTF8Loop(_, _, _, _)
decodeUTF8Loop(data, pos, st, result) ==
  IF ~(Len(data) > pos) THEN result
  ELSE LET t == decodeByte(st, data[pos + 1])
       IN  decodeUTF8Loop(data, IF t.back THEN pos ELSE pos + 1, t.st,
                          result \o decodeOutput(t.code_point))

decodeUTF8(data) == decodeUTF8Loop(data, 0, utf8_initial, <<>>)

(***************************************************************************)
(* String reads and writes                                                 *)
(***************************************************************************)
\* readUTFBytes(length).  new Uint8Array(this.buffer, byteOffset, length)
\* throws a RangeError for a negative byteOffset or length, or when the
\* bytes do not lie inside the buffer.
readUTFBytes(c, length) ==
  IF ~validate(c, length) THEN Throw(c, EOF)
  ELSE IF \/ bufferOffset(c) + c.position < 0
          \/ length < 0
          \/ bufferOffset(c) + c.position + length > Len(c.data.buffer)
  THEN Throw(c, RANGE_ERROR)
  ELSE Advance(c, length, <<decodeUTF8(getBytes(c.data, c.position, length))>>)

\* readUTF()
readUTF(c) ==
  IF ~validate(c, SIZE_OF_UINT16) THEN Throw(c, EOF)
  ELSE IF ~InView(c.data, c.position, 2) THEN Throw(c, RANGE_ERROR)
  ELSE LET length == getUint16(c.data, c.position, LittleEndian(c))
           s      == Advance(c, SIZE_OF_UINT16, <<>>)
       IN  IF s.status # OK THEN s
           ELSE IF length > 0 THEN readUTFBytes(s.c, length)
           ELSE Ok(s.c, <<<<>>>>)

\* writeUTFBytes(value)
writeUTFBytes(c, value) ==
  LET e == encodeUTF8(value)
  IN  IF e.status # OK THEN Throw(c, e.status) ELSE writeUint8Array(c, e.value)

\* writeUTF(value)
writeUTF(c, value) ==
  LET e == encodeUTF8(value)
  IN  IF e.status # OK THEN Throw(c, e.status)
      ELSE LET length == Len(e.value)
               r      == validateBuffer(c, SIZE_OF_UINT16 + length)
           IN  IF r.status # OK THEN r
               ELSE IF ~InView(r.c.data, r.c.position, 2) THEN Throw(r.c, RANGE_ERROR)
               ELSE LET s == Advance([r.c EXCEPT !.data =
                                        setUint16(@, r.c.position, length, LittleEndian(c))],
                                     SIZE_OF_UINT16, <<>>)
                    IN  IF s.status # OK THEN s ELSE writeUint8Array(s.c, e.value)

(***************************************************************************)
(* The cursor under arbitrary calls (specification Spec)                   *)
(*                                                                         *)
(* A cursor is constructed, then any public operation is called on it, up  *)
(* to MaxOps calls.  last records the latest call: its name, arguments,    *)
(* how it ended and what it returned.                                      *)
(***************************************************************************)
MaxOps == 2
MaxUTFBytes == 64

\* The supplied buffer of the cursors built over a region: a long-form VX
\* field (FF 01 00 03), a length-prefixed string (00 02 'A' NUL), zero bytes.
SampleBuffer == <<255, 1, 0, 3, 0, 2, 65, 0>>

\* <<byteOffset, byteLength>> of the regions cursors are built over; a
\* byteLength of 0 is the constructor's default (the whole buffer).
Regions == {<<0, 0>>, <<0, 4>>, <<4, 4>>, <<1, 3>>, <<7, 1>>}

InitialCursors ==
  {NewByteArray, ByteArrayOver(ArrayBuffer(0), 0, 0)}
    \cup {ByteArrayOver(SampleBuffer, r[1], r[2]) : r \in Regions}

PositionValues == {0, 1, 2, 4, 5, 9, 1030}
LengthValues == {0, 3, 9, 1030}
StringLengths == {0, 1, 2, 3}
ByteValues == {-1, 65}
IntValues == {1234, -2}

NoCall == [op |-> "new", arg |-> <<>>, status |-> OK, value |-> <<>>]

Init ==
  /\ ba \in InitialCursors
  /\ last = NoCall
  /\ nops = 0
  /\ pc = "run"
  /\ input = <<>>
  /\ output = <<>>

\* One call: the cursor becomes what the call leaves behind.
Call(op, arg, r) ==
  /\ pc = "run"
  /\ nops < MaxOps
  /\ ba' = r.c
  /\ last' = [op |-> op, arg |-> arg, status |-> r.status, value |-> r.value]
  /\ nops' = nops + 1
  /\ UNCHANGED <<pc, input, output>>

SetPosition == \E v \in PositionValues : Call("position", <<v>>, set_position(ba, v))
SetLength == \E v \in LengthValues : Call("length", <<v>>, set_length(ba, v))
SetEndian == \E e \in {BIG_ENDIAN, LITTLE_ENDIAN} : Call("endian", <<e>>, set_endian(ba, e))
Clear == Call("clear", <<>>, clear(ba))

ReadBoolean == Call("readBoolean", <<>>, readBoolean(ba))
ReadByte == Call("readByte", <<>>, readByte(ba))
ReadUnsignedByte == Call("readUnsignedByte", <<>>, readUnsignedByte(ba))
ReadShort == Call("readShort", <<>>, readShort(ba))
ReadUnsignedShort == Call("readUnsignedShort", <<>>, readUnsignedShort(ba))
ReadInt == Call("readInt", <<>>, readInt(ba))
ReadUnsignedInt == Call("readUnsignedInt", <<>>, readUnsignedInt(ba))
ReadFloat == \E quiet \in BOOLEAN : Call("readFloat", <<>>, readFloat(ba, quiet))
ReadDouble == Call("readDouble", <<>>, readDouble(ba))
ReadUTFBytes == \E n \in StringLengths : Call("readUTFBytes", <<n>>, readUTFBytes(ba, n))
ReadStandardString ==
  \E n \in StringLengths : Call("readStandardString", <<n>>, readStandardString(ba, n))

ReadInt64 == Call("readInt64", <<>>, readInt64(ba))
ReadUnsignedInt64 == Call("readUnsignedInt64", <<>>, readUnsignedInt64(ba))
ReadVariableSizedUnsignedInt ==
  Call("readVariableSizedUnsignedInt", <<>>, readVariableSizedUnsignedInt(ba))
ReadU16VX == Call("readU16VX", <<>>, readU16VX(ba))
\* The stored length prefix is at most MaxUTFBytes, or the read fails on it.
ShortUTF(c) ==
  (validate(c, SIZE_OF_UINT16) /\ InView(c.data, c.position, 2))
    => LET n == getUint16(c.data, c.position, LittleEndian(c))
       IN  n <= MaxUTFBytes \/ c.position + SIZE_OF_UINT16 + n > c.data.byteLength

ReadUTF == ShortUTF(ba) /\ Call("readUTF", <<>>, readUTF(ba))
ReadStringTillNull ==
  \E k \in BOOLEAN : Call("readStringTillNull", <<k>>, readStringTillNull(ba, k))

WriteBoolean == \E v \in BOOLEAN : Call("writeBoolean", <<v>>, writeBoolean(ba, v))
WriteByte == \E v \in ByteValues : Call("writeByte", <<v>>, writeByte(ba, v))
WriteUnsignedByte == Call("writeUnsignedByte", <<200>>, writeUnsignedByte(ba, 200))
WriteShort == Call("writeShort", <<-2>>, writeShort(ba, -2))
WriteUnsignedShort == Call("writeUnsignedShort", <<65280>>, writeUnsignedShort(ba, 65280))
WriteInt == \E v \in IntValues : Call("writeInt", <<v>>, writeInt(ba, v))
WriteUnsignedInt ==
  Call("writeUnsignedInt", <<[hi |-> 65535, lo |-> 1]>>,
       writeUnsignedInt(ba, [hi |-> 65535, lo |-> 1]))
WriteFloat == Call("writeFloat", <<<<63, 128, 0, 0>>>>, writeFloat(ba, <<63, 128, 0, 0>>))
WriteDouble ==
  Call("writeDouble", <<<<63, 240, 0, 0, 0, 0, 0, 1>>>>,
       writeDouble(ba, <<63, 240, 0, 0, 0, 0, 0, 1>>))
WriteUTF == Call("writeUTF", <<<<72, 105>>>>, writeUTF(ba, <<72, 105>>))
WriteUTFBytes == Call("writeUTFBytes", <<<<233>>>>, writeUTFBytes(ba, <<233>>))
WriteUint8Array == Call("writeUint8Array", <<<<1, 2>>>>, writeUint8Array(ba, <<1, 2>>))

\* The cursors with a buffer of their own that writeBytes copies from: one
\* over a whole buffer, one over a region of it (length 2, buffer of 4).
StorageBuffer == <<9, 8, 7, 6>>
SourceCursors == {ByteArrayOver(StorageBuffer, 0, 0), ByteArrayOver(StorageBuffer, 2, 2)}

\* The turns writeBytes makes with the cursor as its own source: from
\* position 0 the loop ends after length turns, from a later position the
\* length grows with each write and the loop ends in an error past the end
\* of the storage.  The calls are made where the turns are at most
\* MaxCopyTurns.
MaxCopyTurns == 16
ShortCopy(c) ==
  (IF c.position = 0 THEN c.write_position ELSE c.data.byteLength - c.position + 1)
    <= MaxCopyTurns

\* A cursor over the first two bytes of the buffer of c.
SharedCursor(c) == [kind |-> "shared", c |-> ByteArrayOver(c.data.buffer, 0, 2)]

WriteBytes ==
  \/ \E src \in SourceCursors, n \in {0, 4} :
       Call("writeBytes", <<[kind |-> "other", c |-> src], 0, n>>,
            writeBytes(ba, [kind |-> "other", c |-> src], 0, n))
  \/ /\ ShortCopy(ba)
     /\ Call("writeBytes", <<[kind |-> "this"], 0, 0>>,
             writeBytes(ba, [kind |-> "this"], 0, 0))
  \/ /\ ValidRegion(ba.data.buffer, 0, 2)
     /\ Call("writeBytes", <<SharedCursor(ba), 0, 0>>,
             writeBytes(ba, SharedCursor(ba), 0, 0))

\* <<offset, length>> given to setBuffer; <<1, 0>> is outside the buffer.
StorageRegions == {<<0, 0>>, <<1, 2>>, <<1, 0>>}

\* <<_bytes, offset, length, createNewBuffer>> of the readBytes calls with
\* a destination that is the cursor itself or a cursor over a buffer of its
\* own.
ReadBytesCalls ==
  {<<[kind |-> "this"], 0, 3, FALSE>>,
   <<[kind |-> "this"], 4, 2, TRUE>>,
   <<[kind |-> "other", c |-> ByteArrayOver(StorageBuffer, 0, 0)], 1, 2, TRUE>>,
   <<[kind |-> "other", c |-> ByteArrayOver(StorageBuffer, 0, 0)], 0, 0, FALSE>>}

ReadBytes ==
  \/ \E a \in ReadBytesCalls :
       Call("readBytes", a, readBytes(ba, a[1], a[2], a[3], a[4]))
  \/ /\ ValidRegion(ba.data.buffer, 0, 2)
     /\ Call("readBytes", <<SharedCursor(ba), 1, 1, TRUE>>,
             readBytes(ba, SharedCursor(ba), 1, 1, TRUE))

SetBuffer ==
  \/ \E r \in StorageRegions :
       Call("setBuffer", <<StorageBuffer, r[1], r[2]>>,
            setBuffer(ba, StorageBuffer, r[1], r[2]))
  \/ Call("setBuffer", <<>>, setBuffer_null(ba))
SetArray ==
  Call("setArray", <<DataView(StorageBuffer, 1, 3)>>,
       setArray(ba, DataView(StorageBuffer, 1, 3)))
SetBufferProperty == Call("buffer", <<StorageBuffer>>, set_buffer(ba, StorageBuffer))
SetDataView ==
  Call("dataView", <<DataView(StorageBuffer, 1, 2)>>,
       set_dataView(ba, DataView(StorageBuffer, 1, 2)))

Next ==
  \/ SetPosition \/ SetLength \/ SetEndian \/ Clear
  \/ ReadBoolean \/ ReadByte \/ ReadUnsignedByte \/ ReadShort \/ ReadUnsignedShort
  \/ ReadInt \/ ReadUnsignedInt \/ ReadFloat \/ ReadDouble
  \/ ReadUTFBytes \/ ReadStandardString
  \/ ReadInt64 \/ ReadUnsignedInt64 \/ ReadVariableSizedUnsignedInt \/ ReadU16VX
  \/ ReadUTF \/ ReadStringTillNull
  \/ WriteBoolean \/ WriteByte \/ WriteUnsignedByte \/ WriteShort \/ WriteUnsignedShort
  \/ WriteInt \/ WriteUnsignedInt \/ WriteFloat \/ WriteDouble
  \/ WriteUTF \/ WriteUTFBytes \/ WriteUint8Array \/ WriteBytes
  \/ ReadBytes \/ SetBuffer \/ SetArray \/ SetBufferProperty \/ SetDataView

Spec == Init /\ [][Next]_vars

(***************************************************************************)
(* Claims checked under Spec                                               *)
(***************************************************************************)
\* A step of Spec that is a call (not a stuttering step).
IsCall == nops' = nops + 1

\* C1: after every public operation that completes (returns without
\* throwing), position <= length (write_position) <= capacity
\* (data.byteLength).
C1_PositionLengthCapacity ==
  last.status = OK
    => /\ ba.position <= ba.write_position
       /\ ba.write_position <= ba.data.byteLength

\* The reads of one field that validate(n) guards, with the n each passes.
GuardedReads ==
  {"readBoolean", "readByte", "readUnsignedByte", "readShort", "readUnsignedShort",
   "readInt", "readUnsignedInt", "readFloat", "readDouble", "readUTFBytes",
   "readStandardString"}

GuardedReadSize(op, arg) ==
  CASE op \in {"readBoolean", "readByte", "readUnsignedByte"} -> 1
    [] op \in {"readShort", "readUnsignedShort"} -> 2
    [] op \in {"readInt", "readUnsignedInt", "readFloat"} -> 4
    [] op = "readDouble" -> 8
    [] op \in {"readUTFBytes", "readStandardString"} -> arg[1]

\* C2: a single-field read of n bytes succeeds iff capacity > 0 and
\* position + n <= capacity; otherwise it raises the end-of-stream error,
\* returns no value and leaves position, length and storage (the whole
\* cursor) unchanged.
C2_GuardedReadFailsClean ==
  [][ (IsCall /\ last'.op \in GuardedReads)
        => LET n == GuardedReadSize(last'.op, last'.arg)
           IN  IF ba.data.byteLength > 0 /\ ba.position + n <= ba.data.byteLength
               THEN last'.status = OK
               ELSE /\ last'.status = EOF
                    /\ last'.value = <<>>
                    /\ ba' = ba ]_vars

\* A guarded read has failed on a cursor that has capacity and has advanced.
C2_Witness ==
  /\ last.op \in GuardedReads
  /\ last.status = EOF
  /\ ba.data.byteLength > 0
  /\ ba.position > 0

\* The reads that take their bytes in more than one step, and the number of
\* bytes the whole field needs on cursor c.
MultiStepReads ==
  {"readInt64", "readUnsignedInt64", "readVariableSizedUnsignedInt", "readU16VX",
   "readUTF"}

FieldSize(op, c) ==
  CASE op \in {"readInt64", "readUnsignedInt64"} -> 8
    [] op = "readU16VX" -> 2
    [] op = "readVariableSizedUnsignedInt" ->
         IF validate(c, 1) /\ getUint8(c.data, c.position) = 255 THEN 4 ELSE 2
    [] op = "readUTF" ->
         IF validate(c, 2) THEN 2 + getUint16(c.data, c.position, LittleEndian(c))
         ELSE 2

\* C3: a read made of several steps is all-or-nothing: with the whole field
\* available it succeeds and position advances by the field's size; with
\* fewer bytes it raises end-of-stream and position is what it was.
C3_MultiStepReadAllOrNothing ==
  [][ (IsCall /\ last'.op \in MultiStepReads)
        => LET size == FieldSize(last'.op, ba)
           IN  IF validate(ba, size)
               THEN last'.status = OK /\ ba'.position = ba.position + size
               ELSE last'.status = EOF /\ ba'.position = ba.position ]_vars

\* C10: with the needed bytes available, readVariableSizedUnsignedInt
\* returns (b0 << 8) | b1 and advances by 2 when b0 is not 0xFF, returns
\* (b1 << 16) | (b2 << 8) | b3 and advances by 4 when b0 is 0xFF, whatever
\* the endian setting; readU16VX returns (b0 << 8) | b1 and advances by 2.
C10_VXRead ==
  [][ IsCall
        => LET b(i) == getUint8(ba.data, ba.position + i)
           IN  /\ (last'.op = "readVariableSizedUnsignedInt" /\ validate(ba, 2))
                    => (b(0) # 255
                          => /\ last'.status = OK
                             /\ last'.value = <<b(0) * 256 + b(1)>>
                             /\ ba'.position = ba.position + 2)
               /\ (last'.op = "readVariableSizedUnsignedInt" /\ validate(ba, 4))
                    => (b(0) = 255
                          => /\ last'.status = OK
                             /\ last'.value = <<b(1) * 65536 + b(2) * 256 + b(3)>>
                             /\ ba'.position = ba.position + 4)
               /\ (last'.op = "readU16VX" /\ validate(ba, 2))
                    => /\ last'.status = OK
                       /\ last'.value = <<b(0) * 256 + b(1)>>
                       /\ ba'.position = ba.position + 2 ]_vars

\* The long form FF 01 00 03 has been read as 65539 under LITTLE_ENDIAN.
C10_Witness ==
  /\ last.op = "readVariableSizedUnsignedInt"
  /\ last.status = OK
  /\ last.value = <<65539>>
  /\ ba.endian = LITTLE_ENDIAN
  /\ ba.position = 4

(***************************************************************************)
(* Growth under single-byte writes (specification SpecGrow)                *)
(*                                                                         *)
(* The scenario of "write N bytes one at a time, rewind, read them back":  *)
(* a new empty cursor, input.n calls of writeByte or writeUnsignedByte,    *)
(* clear(), input.n calls of readUnsignedByte.  nops counts the calls of   *)
(* the running phase; output collects the bytes the reads return.  A call  *)
(* that throws is caught and the scenario goes on.                         *)
(***************************************************************************)
MaxExtra == 2

\* N ranges over the counts just above the initial capacity.
GrowCounts == (BUFFER_EXT_SIZE + 1)..(BUFFER_EXT_SIZE + MaxExtra)

\* The i-th byte written (i from 0): never 0, so a byte read back from
\* untouched storage is told apart.
PatternByte(i) == 1 + ((i * 7) % 255)

InitGrow ==
  /\ ba = NewByteArray
  /\ last = NoCall
  /\ nops = 0
  /\ pc = "write"
  /\ \E n \in GrowCounts, m \in {"writeByte", "writeUnsignedByte"} :
        input = [n |-> n, method |-> m]
  /\ output = <<>>

GrowWrite ==
  /\ pc = "write"
  /\ nops < input.n
  /\ LET r == IF input.method = "writeByte"
              THEN writeByte(ba, PatternByte(nops))
              ELSE writeUnsignedByte(ba, PatternByte(nops))
     IN  /\ ba' = r.c
         /\ last' = [op |-> input.method, arg |-> <<PatternByte(nops)>>,
                     status |-> r.status, value |-> r.value]
  /\ nops' = nops + 1
  /\ UNCHANGED <<pc, input, output>>

GrowClear ==
  /\ pc = "write"
  /\ nops = input.n
  /\ ba' = clear(ba).c
  /\ last' = [op |-> "clear", arg |-> <<>>, status |-> OK, value |-> <<>>]
  /\ nops' = 0
  /\ pc' = "read"
  /\ UNCHANGED <<input, output>>

GrowRead ==
  /\ pc = "read"
  /\ nops < input.n
  /\ LET r == readUnsignedByte(ba)
     IN  /\ ba' = r.c
         /\ last' = [op |-> "readUnsignedByte", arg |-> <<>>,
                     status |-> r.status, value |-> r.value]
         /\ output' = output \o r.value
  /\ nops' = nops + 1
  /\ pc' = IF nops + 1 = input.n THEN "done" ELSE "read"
  /\ UNCHANGED input

NextGrow == GrowWrite \/ GrowClear \/ GrowRead

SpecGrow == InitGrow /\ [][NextGrow]_vars

\* C4: from a new empty cursor, N > 1024 single-byte writes all succeed;
\* then length = N, and after clear() N calls of readUnsignedByte return the
\* bytes written, in order.
C4_GrowthKeepsBytes ==
  /\ (last.op \in {"writeByte", "writeUnsignedByte"} => last.status = OK)
  /\ (last.op = "clear" => ba.write_position = input.n)
  /\ (pc = "done" => output = [i \in 1..input.n |-> PatternByte(i - 1)])

(***************************************************************************)
(* Write, rewind, read of one integer (specification SpecRoundTrip)        *)
(*                                                                         *)
(* A cursor is constructed; then: endian := input.endian; position :=      *)
(* input.p; the write of input.value as input.type; position := input.p;   *)
(* the matching read.  output keeps the capacity the scenario began with,  *)
(* whether every call so far completed, the position the write left and    *)
(* the value the read returned.                                            *)
(***************************************************************************)
MaxStart == 4

IntegerTypes == {"boolean", "int8", "uint8", "int16", "uint16", "int32", "uint32"}

TypeSize(ty) ==
  CASE ty = "boolean" -> SIZE_OF_BOOLEAN
    [] ty = "int8" -> SIZE_OF_INT8
    [] ty = "uint8" -> SIZE_OF_UINT8
    [] ty = "int16" -> SIZE_OF_INT16
    [] ty = "uint16" -> SIZE_OF_UINT16
    [] ty = "int32" -> SIZE_OF_INT32
    [] ty = "uint32" -> SIZE_OF_UINT32

\* The values tried for each type: the whole range for 8 bits, the range's
\* ends and byte-asymmetric values for 16 and 32 bits.
TypeValues(ty) ==
  CASE ty = "boolean" -> BOOLEAN
    [] ty = "int8" -> -128..127
    [] ty = "uint8" -> 0..255
    [] ty = "int16" -> {-32768, -32767, -256, -1, 0, 1, 255, 256, 4660, 32767}
    [] ty = "uint16" -> {0, 1, 255, 256, 4660, 32768, 65280, 65535}
    [] ty = "int32" -> {-2147483647 - 1, -2147483647, -16777216, -1, 0, 1, 1234,
                        16909060, 2147483647}
    [] ty = "uint32" -> {[hi |-> 0, lo |-> 0], [hi |-> 0, lo |-> 1],
                         [hi |-> 258, lo |-> 772], [hi |-> 32768, lo |-> 0],
                         [hi |-> 65535, lo |-> 65534], [hi |-> 65535, lo |-> 65535]}

WriteAs(c, ty, v) ==
  CASE ty = "boolean" -> writeBoolean(c, v)
    [] ty = "int8" -> writeByte(c, v)
    [] ty = "uint8" -> writeUnsignedByte(c, v)
    [] ty = "int16" -> writeShort(c, v)
    [] ty = "uint16" -> writeUnsignedShort(c, v)
    [] ty = "int32" -> writeInt(c, v)
    [] ty = "uint32" -> writeUnsignedInt(c, v)

ReadAs(c, ty) ==
  CASE ty = "boolean" -> readBoolean(c)
    [] ty = "int8" -> readByte(c)
    [] ty = "uint8" -> readUnsignedByte(c)
    [] ty = "int16" -> readShort(c)
    [] ty = "uint16" -> readUnsignedShort(c)
    [] ty = "int32" -> readInt(c)
    [] ty = "uint32" -> readUnsignedInt(c)

RoundTripCursors ==
  {NewByteArray, ByteArrayOver(ArrayBuffer(0), 0, 0),
   ByteArrayOver(SampleBuffer, 0, 0), ByteArrayOver(SampleBuffer, 4, 4)}

InitRoundTrip ==
  /\ ba \in RoundTripCursors
  /\ last = NoCall
  /\ nops = 0
  /\ pc = "endian"
  /\ \E ty \in IntegerTypes :
       \E v \in TypeValues(ty), e \in {BIG_ENDIAN, LITTLE_ENDIAN}, p \in 0..MaxStart :
          input = [type |-> ty, value |-> v, endian |-> e, p |-> p]
  /\ output = <<>>

\* One call of the scenario, moving it from phase from to phase to.
Stage(from, to, op, arg, r) ==
  /\ pc = from
  /\ pc' = to
  /\ ba' = r.c
  /\ last' = [op |-> op, arg |-> arg, status |-> r.status, value |-> r.value]
  /\ nops' = nops + 1
  /\ UNCHANGED input

RTEndian ==
  /\ Stage("endian", "seek", "endian", <<input.endian>>, set_endian(ba, input.endian))
  /\ output' = [capacity |-> ba.data.byteLength, ok |-> TRUE, afterWrite |-> 0,
                read |-> <<>>]

RTSeek ==
  /\ Stage("seek", "write", "position", <<input.p>>, set_position(ba, input.p))
  /\ output' = [output EXCEPT !.ok = @ /\ last'.status = OK]

RTWrite ==
  /\ Stage("write", "rewind", input.type, <<input.value>>,
           WriteAs(ba, input.type, input.value))
  /\ output' = [output EXCEPT !.ok = @ /\ last'.status = OK,
                              !.afterWrite = ba'.position]

RTRewind ==
  /\ Stage("rewind", "read", "position", <<input.p>>, set_position(ba, input.p))
  /\ output' = [output EXCEPT !.ok = @ /\ last'.status = OK]

RTRead ==
  /\ Stage("read", "done", input.type, <<>>, ReadAs(ba, input.type))
  /\ output' = [output EXCEPT !.ok = @ /\ last'.status = OK, !.read = last'.value]

NextRoundTrip == RTEndian \/ RTSeek \/ RTWrite \/ RTRewind \/ RTRead

SpecRoundTrip == InitRoundTrip /\ [][NextRoundTrip]_vars

\* C5: for every fixed-width integer type and each endianness, on a cursor
\* with the type's size available at position p, write(v), position := p,
\* read returns v, and the write and the read each leave position at
\* p + size.
C5_IntegerRoundTrip ==
  (pc = "done" /\ input.p + TypeSize(input.type) <= output.capacity)
    => /\ output.ok
       /\ output.read = <<input.value>>
       /\ output.afterWrite = input.p + TypeSize(input.type)
       /\ ba.position = input.p + TypeSize(input.type)

\* The smallest int16 has been written and read back, little-endian, at
\* position 1 of a region that has room for it.
C5_Witness ==
  /\ pc = "done"
  /\ input.type = "int16"
  /\ input.value = -32768
  /\ input.endian = LITTLE_ENDIAN
  /\ input.p = 1
  /\ output.capacity = 4
  /\ output.read = <<-32768>>

(***************************************************************************)
(* Well-formed strings and the size of their UTF-8 form, as Unicode        *)
(* defines them (used to state the claims, not taken from the code)        *)
(***************************************************************************)
IsHighSurrogate(u) == u >= 55296 /\ u <= 56319
IsLowSurrogate(u) == u >= 56320 /\ u <= 57343

\* No unpaired surrogate: every high surrogate is followed by a low one and
\* every low surrogate follows a high one.
WellFormed(str) ==
  \A i \in 1..Len(str) :
    /\ IsHighSurrogate(str[i]) => (i < Len(str) /\ IsLowSurrogate(str[i + 1]))
    /\ IsLowSurrogate(str[i]) => (i > 1 /\ IsHighSurrogate(str[i - 1]))

\* Bytes of the UTF-8 form of a scalar value.
ScalarSize(cp) == IF cp <= 127 THEN 1 ELSE IF cp <= 2047 THEN 2 ELSE IF cp <= 65535 THEN 3 ELSE 4

RECURSIVE SumSizes(_)
SumSizes(cps) == IF cps = <<>> THEN 0 ELSE ScalarSize(Head(cps)) + SumSizes(Tail(cps))

\* Bytes of the UTF-8 form of a well-formed string: a surrogate pair makes 4.
RECURSIVE UTF8Length(_)
UTF8Length(str) ==
  IF str = <<>> THEN 0
  ELSE (IF IsHighSurrogate(Head(str)) THEN 4
        ELSE IF IsLowSurrogate(Head(str)) THEN 0
        ELSE ScalarSize(Head(str)))
       + UTF8Length(Tail(str))

\* The UTF-16 string of a sequence of scalar values.
RECURSIVE ToUTF16(_)
ToUTF16(cps) ==
  IF cps = <<>> THEN <<>>
  ELSE (IF Head(cps) <= 65535 THEN <<Head(cps)>>
        ELSE <<55296 + ((Head(cps) - 65536) \div 1024),
               56320 + ((Head(cps) - 65536) % 1024)>>)
       \o ToUTF16(Tail(cps))

\* All sequences over S of length at most n.
SeqsUpTo(S, n) == UNION {[1..k -> S] : k \in 0..n}

(***************************************************************************)
(* writeUTF / writeUTFBytes, rewind, read (specification SpecUTF)          *)
(*                                                                         *)
(* A new empty cursor; endian := input.endian; writeUTF(input.str) or      *)
(* writeUTFBytes(input.str); clear(); readUTF() or readUTFBytes of the     *)
(* bytes written.  output keeps the position the write left, the first two *)
(* bytes of storage after the write and the string read.                   *)
(***************************************************************************)
MaxStrLen == 2

\* Code units at the ends of the 1-, 2- and 3-byte ranges, of the surrogate
\* ranges (0xD800, 0xD83D, 0xDBFF, 0xDC00, 0xDE00, 0xDFFF) and around them.
CodeUnitSamples ==
  {0, 65, 127, 128, 233, 2047, 2048, 8364, 55295, 55296, 55357, 56319, 56320,
   56832, 57343, 57344, 65533, 65535}

InitUTF ==
  /\ ba = NewByteArray
  /\ last = NoCall
  /\ nops = 0
  /\ pc = "endian"
  /\ \E str \in SeqsUpTo(CodeUnitSamples, MaxStrLen),
        e \in {BIG_ENDIAN, LITTLE_ENDIAN},
        m \in {"writeUTF", "writeUTFBytes"} :
          input = [str |-> str, endian |-> e, method |-> m]
  /\ output = <<>>

UTFEndian ==
  /\ Stage("endian", "write", "endian", <<input.endian>>, set_endian(ba, input.endian))
  /\ output' = [afterWrite |-> 0, prefix |-> <<>>, read |-> <<>>]

UTFWrite ==
  /\ Stage("write", "clear", input.method, <<input.str>>,
           IF input.method = "writeUTF" THEN writeUTF(ba, input.str)
           ELSE writeUTFBytes(ba, input.str))
  /\ output' = [output EXCEPT !.afterWrite = ba'.position,
                              !.prefix = getBytes(ba'.data, 0, 2)]

UTFClear ==
  /\ Stage("clear", "read", "clear", <<>>, clear(ba))
  /\ UNCHANGED output

UTFRead ==
  /\ Stage("read", "done", IF input.method = "writeUTF" THEN "readUTF" ELSE "readUTFBytes",
           <<>>,
           IF input.method = "writeUTF" THEN readUTF(ba)
           ELSE readUTFBytes(ba, output.afterWrite))
  /\ output' = [output EXCEPT !.read = last'.value]

NextUTF == UTFEndian \/ UTFWrite \/ UTFClear \/ UTFRead

SpecUTF == InitUTF /\ [][NextUTF]_vars

\* C6: on a new empty cursor, writeUTF(s), clear(), readUTF() returns s for
\* every (well-formed) string s; the first two bytes written are the UTF-8
\* byte length of s as an unsigned 16-bit integer in the current endianness,
\* and position after writeUTF is 2 + that length.
C6_WriteUTFReadUTF ==
  (input.method = "writeUTF" /\ WellFormed(input.str))
    => LET n == UTF8Length(input.str)
       IN  /\ pc \in {"clear", "read", "done"}
             => /\ output.prefix = Msf(<<n \div 256, n % 256>>,
                                       input.endian = LITTLE_ENDIAN)
                /\ output.afterWrite = 2 + n
           /\ pc = "done" => output.read = <<input.str>>

\* C7: writeUTF and writeUTFBytes of a string with an unpaired surrogate fail
\* with an encoding error and commit nothing: the cursor is the new empty
\* cursor it was (position 0, length 0, storage all zero).
C7_UnpairedSurrogateRejected ==
  (last.op \in {"writeUTF", "writeUTFBytes"} /\ ~WellFormed(input.str))
    => /\ last.status = ENCODING_ERROR
       /\ ba = [NewByteArray EXCEPT !.endian = input.endian]

(***************************************************************************)
(* encodeUTF8 and decodeUTF8 as functions (specification SpecCodec)        *)
(*                                                                         *)
(* Either a sequence of scalar values is given as a UTF-16 string, encoded *)
(* and the bytes decoded again, or a byte sequence is decoded.             *)
(***************************************************************************)
MaxCodePoints == 2
MaxBytes == 3

\* Scalar values at the ends of the four encoded sizes, around the surrogate
\* gap (0xD7FF, 0xE000), U+FFFD, U+1F600 and NUL.
ScalarSamples ==
  {0, 1, 65, 127, 128, 233, 2047, 2048, 55295, 57344, 65533, 65535, 65536, 128512,
   1114111}

\* Bytes at the ends of the lead and continuation ranges.
ByteSamples == {0, 65, 127, 128, 191, 192, 193, 194, 223, 224, 239, 240, 244, 245, 255}

InitCodec ==
  /\ ba = ByteArrayOver(ArrayBuffer(0), 0, 0)
  /\ last = NoCall
  /\ nops = 0
  /\ output = <<>>
  /\ \/ /\ pc = "encode"
        /\ \E cps \in SeqsUpTo(ScalarSamples, MaxCodePoints) :
              input = [kind |-> "encode", cps |-> cps, str |-> ToUTF16(cps)]
     \/ /\ pc = "decode"
        /\ \E bytes \in SeqsUpTo(ByteSamples, MaxBytes) :
              input = [kind |-> "decode", bytes |-> bytes]

CodecEncode ==
  /\ pc = "encode"
  /\ LET e == encodeUTF8(input.str)
     IN  /\ output' = e.value
         /\ last' = [op |-> "encodeUTF8", arg |-> <<input.str>>, status |-> e.status,
                     value |-> <<e.value>>]
  /\ pc' = "decode"
  /\ nops' = nops + 1
  /\ UNCHANGED <<ba, input>>

CodecDecode ==
  /\ pc = "decode"
  /\ LET bytes == IF input.kind = "encode" THEN output ELSE input.bytes
     IN  /\ output' = decodeUTF8(bytes)
         /\ last' = [op |-> "decodeUTF8", arg |-> <<bytes>>, status |-> OK,
                     value |-> <<decodeUTF8(bytes)>>]
  /\ pc' = "done"
  /\ nops' = nops + 1
  /\ UNCHANGED <<ba, input>>

NextCodec == CodecEncode \/ CodecDecode

SpecCodec == InitCodec /\ [][NextCodec]_vars

InvalidLead(b) == (b >= 128 /\ b <= 193) \/ (b >= 245 /\ b <= 255)

\* C8: in lenient mode a byte in lead position that is neither ASCII nor a
\* valid lead (0x80-0xC1, 0xF5-0xFF) contributes exactly one U+FFFD and
\* decoding goes on with the next byte: such a byte followed by ASCII
\* characters decodes to U+FFFD followed by those characters; [0xC0, 0x41]
\* decodes to U+FFFD 'A'.
C8_InvalidLeadReplaced ==
  (/\ pc = "done"
   /\ input.kind = "decode"
   /\ Len(input.bytes) >= 1
   /\ InvalidLead(input.bytes[1])
   /\ \A i \in 2..Len(input.bytes) : input.bytes[i] \in 1..127)
    => output = <<65533>> \o Tail(input.bytes)

\* C9: for every sequence of scalar values in 0x0001-0x10FFFF given as a
\* UTF-16 string s, decodeUTF8(encodeUTF8(s)) = s (a code point above 0xFFFF
\* comes back as the same surrogate pair), and each code point is encoded in
\* 1, 2, 3 or 4 bytes according to its range.
C9_EncodeDecodeRoundTrip ==
  (input.kind = "encode" /\ \A i \in 1..Len(input.cps) : input.cps[i] # 0)
    => /\ last.op = "encodeUTF8"
         => last.status = OK /\ Len(output) = SumSizes(input.cps)
       /\ pc = "done" => output = input.str

\* U+1F600 next to a 2-byte code point has gone through: 6 bytes, and the
\* surrogate pair D83D DE00 is back.
C9_Witness ==
  /\ pc = "done"
  /\ input.kind = "encode"
  /\ input.cps = <<128512, 233>>
  /\ last.arg = <<<<240, 159, 152, 128, 195, 169>>>>
  /\ output = <<55357, 56832, 233>>

(***************************************************************************)
(* VX write, rewind, read (specification SpecVX)                           *)
(*                                                                         *)
(* The class has a VX reader only.  The writer is the one its reader's     *)
(* comment and section 4.3 of the specification describe: a value below    *)
(* 0xFF00 as two bytes, most significant first; any other value as the     *)
(* byte 0xFF followed by its low 24 bits, most significant first.  It is   *)
(* written through writeUnsignedByte, as the reader reads through          *)
(* readUnsignedByte.                                                       *)
(***************************************************************************)
writeVariableSizedUnsignedInt(c, value) ==
  LET bytes == IF value < 65280
               THEN <<value \div 256, value % 256>>
               ELSE <<255, (value \div 65536) % 256, (value \div 256) % 256, value % 256>>
      w0 == writeUnsignedByte(c, bytes[1])
      w1 == writeUnsignedByte(w0.c, bytes[2])
      w2 == writeUnsignedByte(w1.c, bytes[3])
      w3 == writeUnsignedByte(w2.c, bytes[4])
  IN  IF w0.status # OK THEN w0
      ELSE IF w1.status # OK \/ Len(bytes) = 2 THEN w1
      ELSE IF w2.status # OK THEN w2
      ELSE w3

\* The ends of the short form, of the 24 bits the long form's reader
\* takes, and of the stated range.
VXValues ==
  {0, 1, 255, 256, 4660, 65279, 65280, 65281, 65535, 65536, 16777215, 16777216,
   2147483647}

InitVX ==
  /\ ba = NewByteArray
  /\ last = NoCall
  /\ nops = 0
  /\ pc = "endian"
  /\ \E v \in VXValues, e \in {BIG_ENDIAN, LITTLE_ENDIAN}, p \in 0..MaxStart :
        input = [value |-> v, endian |-> e, p |-> p]
  /\ output = <<>>

VXEndian ==
  /\ Stage("endian", "seek", "endian", <<input.endian>>, set_endian(ba, input.endian))
  /\ output' = [afterWrite |-> 0, first |-> 0, read |-> <<>>]

VXSeek ==
  /\ Stage("seek", "write", "position", <<input.p>>, set_position(ba, input.p))
  /\ UNCHANGED output

VXWrite ==
  /\ Stage("write", "rewind", "writeVariableSizedUnsignedInt", <<input.value>>,
           writeVariableSizedUnsignedInt(ba, input.value))
  /\ output' = [output EXCEPT !.afterWrite = ba'.position,
                              !.first = getUint8(ba'.data, input.p)]

VXRewind ==
  /\ Stage("rewind", "read", "position", <<input.p>>, set_position(ba, input.p))
  /\ UNCHANGED output

VXRead ==
  /\ Stage("read", "done", "readVariableSizedUnsignedInt", <<>>,
           readVariableSizedUnsignedInt(ba))
  /\ output' = [output EXCEPT !.read = last'.value]

NextVX == VXEndian \/ VXSeek \/ VXWrite \/ VXRewind \/ VXRead

SpecVX == InitVX /\ [][NextVX]_vars

\* C11: VX encode followed by VX decode is the identity for every value in
\* 0..2147483647 (0, 65279, 65280 and 2147483647 among them); a value below
\* 0xFF00 is encoded in exactly 2 bytes, any other value in exactly 4 bytes
\* of which the first is 0xFF.
C11_VXRoundTrip ==
  /\ pc \in {"rewind", "read", "done"}
       => IF input.value < 65280
          THEN output.afterWrite = input.p + 2
          ELSE output.afterWrite = input.p + 4 /\ output.first = 255
  /\ pc = "done" => last.status = OK /\ output.read = <<input.value>>


(***************************************************************************)
(* Bulk reads: readBytes and the typed array reads                         *)
(*                                                                         *)
(* A result is one of                                                      *)
(*   [kind |-> "view", byteOffset, byteLength]  a typed array or cursor    *)
(*        over the source's ArrayBuffer object, from byteOffset of it;     *)
(*   [kind |-> "copy", elements]  a fresh buffer holding the elements      *)
(*        decoded under the cursor's endianness;                           *)
(*   [kind |-> "raw", bytes]  a typed array over a fresh buffer holding    *)
(*        the bytes as they were, in storage order.                        *)
(***************************************************************************)
ElementTypes ==
  {"uint8", "int8", "uint16", "int16", "uint32", "int32", "float32", "float64"}

ElementSize(ty) ==
  CASE ty = "uint8" -> SIZE_OF_UINT8
    [] ty = "int8" -> SIZE_OF_INT8
    [] ty = "uint16" -> SIZE_OF_UINT16
    [] ty = "int16" -> SIZE_OF_INT16
    [] ty = "uint32" -> SIZE_OF_UINT32
    [] ty = "int32" -> SIZE_OF_INT32
    [] ty = "float32" -> SIZE_OF_FLOAT32
    [] ty = "float64" -> SIZE_OF_FLOAT64

\* this.data.getX(off, littleEndian) for the element type ty
getElement(ty, d, off, littleEndian, quiet) ==
  CASE ty = "uint8" -> getUint8(d, off)
    [] ty = "int8" -> getInt8(d, off)
    [] ty = "uint16" -> getUint16(d, off, littleEndian)
    [] ty = "int16" -> getInt16(d, off, littleEndian)
    [] ty = "uint32" -> getUint32(d, off, littleEndian)
    [] ty = "int32" -> getInt32(d, off, littleEndian)
    [] ty = "float32" -> getFloat32(d, off, littleEndian, quiet)
    [] ty = "float64" -> getFloat64(d, off, littleEndian)

\* The copy branch: result[i] = this.data.getX(this.position, ...);
\* this.position += SIZE, for i < length.
\* quiet[i + 1] is the encoding choice for element i of a float32 read.
RECURSIVE readArrayLoop(_, _, _, _, _, _)
readArrayLoop(c, ty, length, i, result, quiet) ==
  IF length < 0 THEN Throw(c, RANGE_ERROR)   \* new ArrayBuffer(negative)
  ELSE IF i >= length THEN Ok(c, <<[kind |-> "copy", elements |-> result]>>)
  ELSE IF ~InView(c.data, c.position, ElementSize(ty)) THEN Throw(c, RANGE_ERROR)
  ELSE LET s == set_position(c, c.position + ElementSize(ty))
       IN  IF s.status # OK THEN s
           ELSE readArrayLoop(s.c, ty, length, i + 1,
                  Append(result, getElement(ty, c.data, c.position, LittleEndian(c),
                                            ty = "float32" /\ quiet[i + 1])),
                  quiet)

\* The unaligned branch of readInt32Array and readFloat32Array:
\* tmp[i] = this.data.getUint8(this.position); this.position += 1, for
\* i < size; the result is a typed array over tmp.buffer.
RECURSIVE readRawLoop(_, _, _, _)
readRawLoop(c, size, i, tmp) ==
  IF size < 0 THEN Throw(c, RANGE_ERROR)   \* new ArrayBuffer(negative)
  ELSE IF i >= size THEN Ok(c, <<[kind |-> "raw", bytes |-> tmp]>>)
  ELSE IF ~InView(c.data, c.position, 1) THEN Throw(c, RANGE_ERROR)
  ELSE LET s == set_position(c, c.position + SIZE_OF_UINT8)
       IN  IF s.status # OK THEN s
           ELSE readRawLoop(s.c, size, i + 1, Append(tmp, getUint8(c.data, c.position)))

\* result = new XArray(this.buffer, byteOffset, length); this.position += size.
\* The constructor throws a RangeError unless byteOffset and length are not
\* negative, byteOffset is a multiple of the element size and the elements
\* lie inside the buffer.
readArrayView(c, ty, byteOffset, length) ==
  IF \/ byteOffset < 0
     \/ length < 0
     \/ byteOffset % ElementSize(ty) # 0
     \/ byteOffset + length * ElementSize(ty) > Len(c.data.buffer)
  THEN Throw(c, RANGE_ERROR)
  ELSE Advance(c, length * ElementSize(ty),
               <<[kind |-> "view", byteOffset |-> byteOffset,
                  byteLength |-> length * ElementSize(ty)]>>)

readUint8Array(c, length, createNewBuffer) ==
  IF ~validate(c, length) THEN Throw(c, EOF)
  ELSE IF ~createNewBuffer
  THEN readArrayView(c, "uint8", bufferOffset(c) + c.position, length)
  ELSE readArrayLoop(c, "uint8", length, 0, <<>>, <<>>)

readUint16Array(c, length, createNewBuffer) ==
  IF ~validate(c, length * SIZE_OF_UINT16) THEN Throw(c, EOF)
  ELSE IF ~createNewBuffer
  THEN readArrayView(c, "uint16", bufferOffset(c) + c.position, length)
  ELSE readArrayLoop(c, "uint16", length, 0, <<>>, <<>>)

readUint32Array(c, length, createNewBuffer) ==
  IF ~validate(c, length * SIZE_OF_UINT32) THEN Throw(c, EOF)
  ELSE IF ~createNewBuffer
  THEN readArrayView(c, "uint32", bufferOffset(c) + c.position, length)
  ELSE readArrayLoop(c, "uint32", length, 0, <<>>, <<>>)

readInt8Array(c, length, createNewBuffer) ==
  IF ~validate(c, length) THEN Throw(c, EOF)
  ELSE IF ~createNewBuffer
  THEN readArrayView(c, "int8", bufferOffset(c) + c.position, length)
  ELSE readArrayLoop(c, "int8", length, 0, <<>>, <<>>)

readInt16Array(c, length, createNewBuffer) ==
  IF ~validate(c, length * SIZE_OF_INT16) THEN Throw(c, EOF)
  ELSE IF ~createNewBuffer
  THEN readArrayView(c, "int16", bufferOffset(c) + c.position, length)
  ELSE readArrayLoop(c, "int16", length, 0, <<>>, <<>>)

readInt32Array(c, length, createNewBuffer) ==
  IF ~validate(c, length * SIZE_OF_INT32) THEN Throw(c, EOF)
  ELSE IF ~createNewBuffer
  THEN IF (bufferOffset(c) + c.position) % 4 = 0
       THEN readArrayView(c, "int32", bufferOffset(c) + c.position, length)
       ELSE readRawLoop(c, length * SIZE_OF_INT32, 0, <<>>)
  ELSE readArrayLoop(c, "int32", length, 0, <<>>, <<>>)

readFloat32Array(c, length, createNewBuffer, quiet) ==
  IF ~validate(c, length * SIZE_OF_FLOAT32) THEN Throw(c, EOF)
  ELSE IF ~createNewBuffer
  THEN IF (bufferOffset(c) + c.position) % 4 = 0
       THEN readArrayView(c, "float32", bufferOffset(c) + c.position, length)
       ELSE readRawLoop(c, length * SIZE_OF_FLOAT32, 0, <<>>)
  ELSE readArrayLoop(c, "float32", length, 0, <<>>, quiet)

\* The view is new Float64Array(this.buffer, this.position, length): the
\* region's byte offset is not added.
readFloat64Array(c, length, createNewBuffer) ==
  IF ~validate(c, length * SIZE_OF_FLOAT64) THEN Throw(c, EOF)
  ELSE IF ~createNewBuffer
  THEN readArrayView(c, "float64", c.position, length)
  ELSE readArrayLoop(c, "float64", length, 0, <<>>, <<>>)


(***************************************************************************)
(* A bulk read, then a write through the source (specification SpecView)   *)
(*                                                                         *)
(* A cursor over a region of a 16-byte buffer; endian := input.endian;     *)
(* position := input.p; the bulk read of input.n elements; position :=     *)
(* input.p + input.k; writeUnsignedByte(MarkByte).  output keeps the bytes *)
(* of the range before the read, the result, and heap: the contents of the *)
(* ArrayBuffer object the source had when the read returned (the object a  *)
(* view result is over).  A later call of the source changes that object   *)
(* unless validateBuffer has replaced the source's buffer, which always    *)
(* changes data.byteLength.                                                *)
(***************************************************************************)
MaxElements == 2

ViewBuffer == <<1, 2, 3, 4, 5, 6, 7, 8, 9, 10, 11, 12, 13, 14, 15, 16>>

\* The whole buffer, and regions at byte offsets 8, 4, 2 and 1.
ViewRegions == {<<0, 0>>, <<8, 8>>, <<4, 8>>, <<2, 6>>, <<1, 4>>}

MarkByte == 170

\* The encoding choices for the n elements of a float32 read.
NaNChoices(n) == [1..n -> BOOLEAN]

BulkReads ==
  {"readBytes", "readUint8Array", "readInt8Array", "readUint16Array", "readInt16Array",
   "readUint32Array", "readInt32Array", "readFloat32Array", "readFloat64Array"}

BulkType(m) ==
  CASE m = "readBytes" -> "uint8"
    [] m = "readUint8Array" -> "uint8"
    [] m = "readInt8Array" -> "int8"
    [] m = "readUint16Array" -> "uint16"
    [] m = "readInt16Array" -> "int16"
    [] m = "readUint32Array" -> "uint32"
    [] m = "readInt32Array" -> "int32"
    [] m = "readFloat32Array" -> "float32"
    [] m = "readFloat64Array" -> "float64"

BulkRead(c, m, n, createNewBuffer, quiet) ==
  CASE m = "readBytes" -> readBytes(c, [kind |-> "null"], 0, n, createNewBuffer)
    [] m = "readUint8Array" -> readUint8Array(c, n, createNewBuffer)
    [] m = "readInt8Array" -> readInt8Array(c, n, createNewBuffer)
    [] m = "readUint16Array" -> readUint16Array(c, n, createNewBuffer)
    [] m = "readInt16Array" -> readInt16Array(c, n, createNewBuffer)
    [] m = "readUint32Array" -> readUint32Array(c, n, createNewBuffer)
    [] m = "readInt32Array" -> readInt32Array(c, n, createNewBuffer)
    [] m = "readFloat32Array" -> readFloat32Array(c, n, createNewBuffer, quiet)
    [] m = "readFloat64Array" -> readFloat64Array(c, n, createNewBuffer)

RangeSize == input.n * ElementSize(BulkType(input.method))

InitView ==
  /\ \E r \in ViewRegions : ba = ByteArrayOver(ViewBuffer, r[1], r[2])
  /\ last = NoCall
  /\ nops = 0
  /\ pc = "endian"
  /\ \E m \in BulkReads, n \in 1..MaxElements, b \in BOOLEAN, p \in {0, 1, 2, 4},
        e \in {BIG_ENDIAN, LITTLE_ENDIAN}, atEnd \in BOOLEAN :
        input = [method |-> m, n |-> n, createNewBuffer |-> b, p |-> p, endian |-> e,
                 k |-> IF atEnd THEN n * ElementSize(BulkType(m)) - 1 ELSE 0]
  /\ output = <<>>

ViewEndian ==
  /\ Stage("endian", "seek", "endian", <<input.endian>>, set_endian(ba, input.endian))
  /\ output' = [capacity |-> ba.data.byteLength, ok |-> TRUE, before |-> <<>>,
                result |-> <<>>, heap |-> <<>>]

ViewSeek ==
  /\ Stage("seek", "read", "position", <<input.p>>, set_position(ba, input.p))
  /\ output' = [output EXCEPT !.ok = @ /\ last'.status = OK]

ViewRead ==
  /\ \E quiet \in NaNChoices(input.n) :
       Stage("read", "aim", input.method, <<input.n, input.createNewBuffer>>,
             BulkRead(ba, input.method, input.n, input.createNewBuffer, quiet))
  /\ output' = [output EXCEPT
                  !.ok = @ /\ last'.status = OK,
                  !.before = IF InView(ba.data, input.p, RangeSize)
                             THEN getBytes(ba.data, input.p, RangeSize) ELSE <<>>,
                  !.result = last'.value,
                  !.heap = ba'.data.buffer]

ViewAim ==
  /\ Stage("aim", "write", "position", <<input.p + input.k>>,
           set_position(ba, input.p + input.k))
  /\ output' = [output EXCEPT
                  !.ok = @ /\ last'.status = OK,
                  !.heap = IF ba'.data.byteLength = ba.data.byteLength
                           THEN ba'.data.buffer ELSE @]

ViewWrite ==
  /\ Stage("write", "done", "writeUnsignedByte", <<MarkByte>>,
           writeUnsignedByte(ba, MarkByte))
  /\ output' = [output EXCEPT
                  !.ok = @ /\ last'.status = OK,
                  !.heap = IF ba'.data.byteLength = ba.data.byteLength
                           THEN ba'.data.buffer ELSE @]

NextView == ViewEndian \/ ViewSeek \/ ViewRead \/ ViewAim \/ ViewWrite

SpecView == InitView /\ [][NextView]_vars

\* The bytes a view result shows now.
ViewedBytes(result) ==
  SubSeq(output.heap, result.byteOffset + 1, result.byteOffset + result.byteLength)

\* The elements of type ty that the bytes bs hold under the endianness e.
ElementsOf(ty, bs, n, e) ==
  [i \in 1..n |->
     getElement(ty, DataView(bs, 0, Len(bs)), (i - 1) * ElementSize(ty), e = LITTLE_ENDIAN,
                FALSE)]

\* C12: a view-mode bulk read of n elements at position p (readBytes or a
\* typed array read with createNewBuffer = false) returns a result that
\* aliases the source's storage for exactly the logical range
\* [p, p + n * elementSize): a later write through the source at an offset
\* of the range shows through the result.  A copy-mode read returns the
\* elements as they were, whatever is written to the source later.  For
\* every element type and for regions at a nonzero byte offset.  Stated
\* for ranges that start at a multiple of the element size in the backing
\* buffer, where a typed array over the buffer can exist.
C12_ViewAliasesCopyDoesNot ==
  (/\ pc = "done"
   /\ input.p + RangeSize <= output.capacity
   /\ (bufferOffset(ba) + input.p) % ElementSize(BulkType(input.method)) = 0)
    => /\ output.ok
       /\ Len(output.result) = 1
       /\ getUint8(ba.data, input.p + input.k) = MarkByte
       /\ IF input.createNewBuffer
          THEN /\ output.result[1].kind = "copy"
               /\ output.result[1].elements =
                    ElementsOf(BulkType(input.method), output.before, input.n, input.endian)
          ELSE /\ output.result[1].kind = "view"
               /\ output.result[1].byteLength = RangeSize
               /\ ViewedBytes(output.result[1]) = getBytes(ba.data, input.p, RangeSize)

(***************************************************************************)
(* Position assignment (checked under Spec)                                *)
(***************************************************************************)
\* C13: assigning position a value v greater than the current position
\* first checks that v is reachable under the read rule (capacity > 0 and
\* v <= capacity); if it is not, the assignment fails with end-of-stream and
\* leaves position and length unchanged; if it is, position becomes v and
\* length becomes max(length, v).  Assigning a value not greater than the
\* current position always succeeds and leaves length unchanged.
C13_PositionAssignment ==
  [][ (IsCall /\ last'.op = "position")
        => LET v == last'.arg[1]
           IN  IF v > ba.position
               THEN IF ba.data.byteLength > 0 /\ v <= ba.data.byteLength
                    THEN /\ last'.status = OK
                         /\ ba'.position = v
                         /\ ba'.write_position = Max(ba.write_position, v)
                    ELSE /\ last'.status = EOF
                         /\ ba'.position = ba.position
                         /\ ba'.write_position = ba.write_position
               ELSE /\ last'.status = OK
                    /\ ba'.position = v
                    /\ ba'.write_position = ba.write_position ]_vars

(***************************************************************************)
(* Bulk typed writes                                                       *)
(***************************************************************************)
\* this.data.setX(off, value, littleEndian) for the element type ty
setElement(ty, d, off, value, littleEndian) ==
  CASE ty = "uint8" -> setUint8(d, off, value)
    [] ty = "int8" -> setInt8(d, off, value)
    [] ty = "uint16" -> setUint16(d, off, value, littleEndian)
    [] ty = "int16" -> setInt16(d, off, value, littleEndian)
    [] ty = "uint32" -> setUint32(d, off, value, littleEndian)
    [] ty = "int32" -> setInt32(d, off, value, littleEndian)
    [] ty = "float32" -> setFloat32(d, off, value, littleEndian)
    [] ty = "float64" -> setFloat64(d, off, value, littleEndian)

\* this.data.setX(this.position, _bytes[i], ...); this.position += SIZE,
\* for each element.
RECURSIVE writeArrayLoop(_, _, _, _, _)
writeArrayLoop(c, ty, elements, i, quiet) ==
  IF i > Len(elements) THEN Ok(c, <<>>)
  ELSE IF ~InView(c.data, c.position, ElementSize(ty)) THEN Throw(c, RANGE_ERROR)
  ELSE LET s == set_position(
                  [c EXCEPT !.data =
                     setElement(ty, @, c.position,
                                IF ty = "float32"
                                THEN numberOfFloat32(elements[i], quiet[i])
                                ELSE elements[i],
                                LittleEndian(c))],
                  c.position + ElementSize(ty))
       IN  IF s.status # OK THEN s ELSE writeArrayLoop(s.c, ty, elements, i + 1, quiet)

\* this.data.setInt8(this.position++, _bytes[i]) for each element.
RECURSIVE writeInt8ArrayLoop(_, _, _)
writeInt8ArrayLoop(c, bytes, i) ==
  IF i > Len(bytes) THEN Ok(c, <<>>)
  ELSE LET s == PostIncrement(c)
       IN  IF s.status # OK THEN s
           ELSE IF ~InView(s.c.data, c.position, 1) THEN Throw(s.c, RANGE_ERROR)
           ELSE writeInt8ArrayLoop([s.c EXCEPT !.data = setInt8(@, c.position, bytes[i])],
                                   bytes, i + 1)

\* Each typed array write begins with
\* this.validateBuffer(this.position + _bytes.length): the element count.
writeInt8Array(c, bytes) ==
  LET r == validateBuffer(c, c.position + Len(bytes))
  IN  IF r.status # OK THEN r ELSE writeInt8ArrayLoop(r.c, bytes, 1)

writeUint16Array(c, bytes) ==
  LET r == validateBuffer(c, c.position + Len(bytes))
  IN  IF r.status # OK THEN r ELSE writeArrayLoop(r.c, "uint16", bytes, 1, <<>>)

writeUint32Array(c, bytes) ==
  LET r == validateBuffer(c, c.position + Len(bytes))
  IN  IF r.status # OK THEN r ELSE writeArrayLoop(r.c, "uint32", bytes, 1, <<>>)

writeInt16Array(c, bytes) ==
  LET r == validateBuffer(c, c.position + Len(bytes))
  IN  IF r.status # OK THEN r ELSE writeArrayLoop(r.c, "int16", bytes, 1, <<>>)

writeInt32Array(c, bytes) ==
  LET r == validateBuffer(c, c.position + Len(bytes))
  IN  IF r.status # OK THEN r ELSE writeArrayLoop(r.c, "int32", bytes, 1, <<>>)

writeFloat32Array(c, bytes, quiet) ==
  LET r == validateBuffer(c, c.position + Len(bytes))
  IN  IF r.status # OK THEN r ELSE writeArrayLoop(r.c, "float32", bytes, 1, quiet)

writeFloat64Array(c, bytes) ==
  LET r == validateBuffer(c, c.position + Len(bytes))
  IN  IF r.status # OK THEN r ELSE writeArrayLoop(r.c, "float64", bytes, 1, <<>>)

(***************************************************************************)
(* Bulk write, rewind, copy-mode bulk read (specification SpecBulk)        *)
(*                                                                         *)
(* A new cursor or a cursor over a region of the 16-byte buffer; endian := *)
(* input.endian; position := input.p; the typed array write of             *)
(* input.elements; position := input.p; the copy-mode typed array read of  *)
(* as many elements.                                                       *)
(***************************************************************************)
\* Two values of each element type with bytes that differ.
ElementValues(ty) ==
  CASE ty = "uint8" -> {1, 255}
    [] ty = "int8" -> {-128, 127}
    [] ty = "uint16" -> {258, 65535}
    [] ty = "int16" -> {-2, 258}
    [] ty = "uint32" -> {[hi |-> 258, lo |-> 772], [hi |-> 65535, lo |-> 65534]}
    [] ty = "int32" -> {-2, 16909060}
    [] ty = "float32" -> {<<63, 128, 0, 0>>, <<192, 73, 15, 219>>}
    [] ty = "float64" -> {<<63, 240, 0, 0, 0, 0, 0, 1>>, <<192, 9, 33, 251, 84, 68, 45, 24>>}

WriteArray(c, ty, elements, quiet) ==
  CASE ty = "uint8" -> writeUint8Array(c, elements)
    [] ty = "int8" -> writeInt8Array(c, elements)
    [] ty = "uint16" -> writeUint16Array(c, elements)
    [] ty = "int16" -> writeInt16Array(c, elements)
    [] ty = "uint32" -> writeUint32Array(c, elements)
    [] ty = "int32" -> writeInt32Array(c, elements)
    [] ty = "float32" -> writeFloat32Array(c, elements, quiet)
    [] ty = "float64" -> writeFloat64Array(c, elements)

ReadArray(c, ty, n, quiet) ==
  CASE ty = "uint8" -> readUint8Array(c, n, TRUE)
    [] ty = "int8" -> readInt8Array(c, n, TRUE)
    [] ty = "uint16" -> readUint16Array(c, n, TRUE)
    [] ty = "int16" -> readInt16Array(c, n, TRUE)
    [] ty = "uint32" -> readUint32Array(c, n, TRUE)
    [] ty = "int32" -> readInt32Array(c, n, TRUE)
    [] ty = "float32" -> readFloat32Array(c, n, TRUE, quiet)
    [] ty = "float64" -> readFloat64Array(c, n, TRUE)

InitBulk ==
  /\ \/ ba = NewByteArray
     \/ \E r \in ViewRegions : ba = ByteArrayOver(ViewBuffer, r[1], r[2])
  /\ last = NoCall
  /\ nops = 0
  /\ pc = "endian"
  /\ \E ty \in ElementTypes, n \in 1..MaxElements, p \in {0, 1, 2, 4},
        e \in {BIG_ENDIAN, LITTLE_ENDIAN} :
        \E elements \in [1..n -> ElementValues(ty)] :
           input = [type |-> ty, elements |-> elements, p |-> p, endian |-> e]
  /\ output = <<>>

BulkEndian ==
  /\ Stage("endian", "seek", "endian", <<input.endian>>, set_endian(ba, input.endian))
  /\ output' = [capacity |-> ba.data.byteLength, ok |-> TRUE, afterWrite |-> 0,
                read |-> <<>>]

BulkSeek ==
  /\ Stage("seek", "write", "position", <<input.p>>, set_position(ba, input.p))
  /\ output' = [output EXCEPT !.ok = @ /\ last'.status = OK]

BulkWrite ==
  /\ \E quiet \in NaNChoices(Len(input.elements)) :
       Stage("write", "rewind", input.type, <<input.elements>>,
             WriteArray(ba, input.type, input.elements, quiet))
  /\ output' = [output EXCEPT !.ok = @ /\ last'.status = OK,
                              !.afterWrite = ba'.position]

BulkRewind ==
  /\ Stage("rewind", "read", "position", <<input.p>>, set_position(ba, input.p))
  /\ output' = [output EXCEPT !.ok = @ /\ last'.status = OK]

BulkReadBack ==
  /\ \E quiet \in NaNChoices(Len(input.elements)) :
       Stage("read", "done", input.type, <<Len(input.elements), TRUE>>,
             ReadArray(ba, input.type, Len(input.elements), quiet))
  /\ output' = [output EXCEPT !.ok = @ /\ last'.status = OK, !.read = last'.value]

NextBulk == BulkEndian \/ BulkSeek \/ BulkWrite \/ BulkRewind \/ BulkReadBack

SpecBulk == InitBulk /\ [][NextBulk]_vars

\* C14: a bulk typed write of N elements of byte size s at position p
\* (a position inside the capacity) always succeeds, growing storage when
\* p + N * s exceeds the capacity, and advances position to p + N * s; a
\* copy-mode bulk read of N elements from p under the same endianness
\* returns the same N elements.
C14_BulkWriteReadBack ==
  (pc \in {"rewind", "read", "done"} /\ input.p <= output.capacity)
    => /\ pc \in {"rewind", "read", "done"}
            => /\ output.ok
               /\ output.afterWrite
                    = input.p + Len(input.elements) * ElementSize(input.type)
       /\ pc = "done"
            => /\ output.ok
               /\ output.read = <<[kind |-> "copy", elements |-> input.elements]>>

(***************************************************************************)
(* Construction, then one byte read (specification SpecNew)                *)
(*                                                                         *)
(* new ByteArray() or new ByteArray(buffer, offset, length) over the       *)
(* 16-byte buffer; position := input.i; readUnsignedByte().  Before the    *)
(* constructor has returned there is no object: ba is <<>>, and it stays   *)
(* so when new DataView throws.                                            *)
(***************************************************************************)
InitNew ==
  /\ ba = <<>>
  /\ last = NoCall
  /\ nops = 0
  /\ pc = "new"
  /\ \E i \in 0..MaxStart :
       \/ input = [given |-> FALSE, buffer |-> <<>>, offset |-> 0, length |-> 0, i |-> i]
       \/ \E o \in {0, 1, 4, 8, 15, 16, 17}, len \in {0, 1, 4, 8, 16} :
             input = [given |-> TRUE, buffer |-> ViewBuffer, offset |-> o,
                      length |-> len, i |-> i]
  /\ output = <<>>

NewConstruct ==
  /\ Stage("new", "seek", "new",
           IF input.given THEN <<input.buffer, input.offset, input.length>> ELSE <<>>,
           IF ~input.given THEN Ok(NewByteArray, <<>>)
           ELSE IF ValidRegion(input.buffer, input.offset, input.length)
           THEN Ok(ByteArrayOver(input.buffer, input.offset, input.length), <<>>)
           ELSE Throw(<<>>, RANGE_ERROR))
  /\ output' = [constructed |-> last'.status = OK, read |-> <<>>]

NewSeek ==
  /\ pc = "seek"
  /\ output.constructed
  /\ Stage("seek", "read", "position", <<input.i>>, set_position(ba, input.i))
  /\ UNCHANGED output

NewRead ==
  /\ Stage("read", "done", "readUnsignedByte", <<>>, readUnsignedByte(ba))
  /\ output' = [output EXCEPT !.read = last'.value]

NextNew == NewConstruct \/ NewSeek \/ NewRead

SpecNew == InitNew /\ [][NextNew]_vars

\* C15: a cursor constructed over a buffer with byte offset o and byte
\* length L > 0 has position 0, length L and bytesAvailable L, and its
\* logical offset i addresses backing byte o + i; a cursor constructed with
\* no arguments has position 0, length 0 and capacity 1024; a cursor
\* constructed over a buffer with no length has length and bytesAvailable
\* equal to the backing buffer's byte length.
C15_Construction ==
  /\ (pc = "seek" /\ output.constructed)
       => /\ ba.position = 0
          /\ IF ~input.given
             THEN ba.write_position = 0 /\ ba.data.byteLength = BUFFER_EXT_SIZE
             ELSE IF input.length > 0
             THEN ba.write_position = input.length /\ bytesAvailable(ba) = input.length
             ELSE /\ ba.write_position = Len(input.buffer)
                  /\ bytesAvailable(ba) = Len(input.buffer)
  /\ (pc = "done" /\ input.given /\ input.length > 0 /\ input.i < input.length)
       => /\ last.status = OK
          /\ output.read = <<input.buffer[input.offset + input.i + 1]>>

\* A cursor over bytes 8..11 of the buffer has been constructed and its
\* logical offset 1 read: backing byte 9, which holds 10.
C15_Witness ==
  /\ pc = "done"
  /\ input.given /\ input.offset = 8 /\ input.length = 4 /\ input.i = 1
  /\ ba.write_position = 4
  /\ output.read = <<10>>

(***************************************************************************)
(* readMultiByte and writeMultiByte                                        *)
(*                                                                         *)
(* Both go through the platform's Buffer.  For the charsets "ascii" and    *)
(* "utf8": buff.write stores, in a zero-filled buffer of value.length      *)
(* bytes, the low 8 bits of each code unit ("ascii") or the UTF-8 form of  *)
(* each character while it fits whole ("utf8"); buff.toString gives the    *)
(* low 7 bits of each byte ("ascii") or the UTF-8 decoding, with U+FFFD    *)
(* for each ill-formed sequence ("utf8").                                  *)
(***************************************************************************)
\* The UTF-8 bytes of the scalar value cp.
utf8Bytes(cp) ==
  IF cp < 128 THEN <<cp>>
  ELSE IF cp < 2048 THEN <<192 + (cp \div 64), 128 + (cp % 64)>>
  ELSE IF cp < 65536
  THEN <<224 + (cp \div 4096), 128 + ((cp \div 64) % 64), 128 + (cp % 64)>>
  ELSE <<240 + (cp \div 262144), 128 + ((cp \div 4096) % 64),
         128 + ((cp \div 64) % 64), 128 + (cp % 64)>>

\* buff.write(value, 0, length, "utf8") into a zero-filled buffer of length
\* bytes, from code unit i on: whole characters are written while they fit;
\* a surrogate pair is one character of four bytes, an unpaired surrogate
\* is written as U+FFFD.
RECURSIVE bufferWriteUTF8(_, _, _, _)
bufferWriteUTF8(value, length, i, bytes) ==
  IF i > Len(value) THEN bytes \o ArrayBuffer(length - Len(bytes))
  ELSE LET pair == /\ IsHighSurrogate(value[i])
                   /\ i < Len(value)
                   /\ IsLowSurrogate(value[i + 1])
           cp == IF pair
                 THEN 65536 + (value[i] - 55296) * 1024 + (value[i + 1] - 56320)
                 ELSE IF IsHighSurrogate(value[i]) \/ IsLowSurrogate(value[i])
                 THEN 65533
                 ELSE value[i]
           ch == utf8Bytes(cp)
       IN  IF Len(bytes) + Len(ch) > length
           THEN bytes \o ArrayBuffer(length - Len(bytes))
           ELSE bufferWriteUTF8(value, length, IF pair THEN i + 2 ELSE i + 1, bytes \o ch)

\* const buff = new Buffer(value.length); buff.write(value, 0, value.length,
\* charSet), for the charsets "ascii" (the low byte of each code unit) and
\* "utf8".
bufferWrite(value, charSet) ==
  IF charSet = "ascii" THEN [i \in 1..Len(value) |-> value[i] % 256]
  ELSE bufferWriteUTF8(value, Len(value), 1, <<>>)

\* The decoder between sequences.
toString_initial == [cp |-> 0, need |-> 0, lower |-> 128, upper |-> 191]

\* buff.toString("utf8") from byte i on, st the sequence being read: a
\* well-formed sequence gives its code point (a surrogate pair above
\* U+FFFF); a byte that cannot start or continue a sequence ends the
\* sequence with one U+FFFD and is read again as a first byte; a sequence
\* cut by the end of the bytes gives one U+FFFD.
RECURSIVE bufferToStringUTF8(_, _, _, _)
bufferToStringUTF8(bytes, i, st, str) ==
  IF i > Len(bytes) THEN (IF st.need > 0 THEN Append(str, 65533) ELSE str)
  ELSE LET b == bytes[i]
       IN  IF st.need = 0
           THEN IF b < 128
                THEN bufferToStringUTF8(bytes, i + 1, toString_initial, Append(str, b))
                ELSE IF b >= 194 /\ b <= 223
                THEN bufferToStringUTF8(bytes, i + 1,
                       [cp |-> b - 192, need |-> 1, lower |-> 128, upper |-> 191], str)
                ELSE IF b >= 224 /\ b <= 239
                THEN bufferToStringUTF8(bytes, i + 1,
                       [cp |-> b - 224, need |-> 2,
                        lower |-> IF b = 224 THEN 160 ELSE 128,
                        upper |-> IF b = 237 THEN 159 ELSE 191], str)
                ELSE IF b >= 240 /\ b <= 244
                THEN bufferToStringUTF8(bytes, i + 1,
                       [cp |-> b - 240, need |-> 3,
                        lower |-> IF b = 240 THEN 144 ELSE 128,
                        upper |-> IF b = 244 THEN 143 ELSE 191], str)
                ELSE bufferToStringUTF8(bytes, i + 1, toString_initial, Append(str, 65533))
           ELSE IF b < st.lower \/ b > st.upper
           THEN bufferToStringUTF8(bytes, i, toString_initial, Append(str, 65533))
           ELSE IF st.need = 1
           THEN bufferToStringUTF8(bytes, i + 1, toString_initial,
                                   str \o ToUTF16(<<st.cp * 64 + (b - 128)>>))
           ELSE bufferToStringUTF8(bytes, i + 1,
                  [cp |-> st.cp * 64 + (b - 128), need |-> st.need - 1,
                   lower |-> 128, upper |-> 191], str)

\* buff.toString(charSet, 0, length) over the bytes of buff, for the
\* charsets "ascii" (the low seven bits of each byte) and "utf8".
bufferToString(bytes, charSet) ==
  IF charSet = "ascii" THEN [i \in 1..Len(bytes) |-> bytes[i] % 128]
  ELSE bufferToStringUTF8(bytes, 1, toString_initial, <<>>)

\* Buffer.from(arrayBuffer, byteOffset, length) throws a RangeError for a
\* byteOffset outside the buffer or a length past its end; a length that is
\* not positive gives the empty buffer.
bufferFromThrows(buffer, byteOffset, length) ==
  \/ byteOffset < 0
  \/ byteOffset > Len(buffer)
  \/ length > 0 /\ length > Len(buffer) - byteOffset

\* readMultiByte(length, charSet) taking the bytes from the start of the
\* region: Buffer.from(this.buffer, this.bufferOffset, length).
readMultiByte_fromStart(c, length, charSet) ==
  IF ~validate(c, length) THEN Throw(c, EOF)
  ELSE LET s == set_position(c, c.position + length)
       IN  IF s.status # OK THEN s
           ELSE IF bufferFromThrows(c.data.buffer, bufferOffset(c), length)
           THEN Throw(s.c, RANGE_ERROR)
           ELSE Ok(s.c, <<bufferToString(
                            IF length > 0 THEN getBytes(c.data, 0, length) ELSE <<>>,
                            charSet)>>)

\* readMultiByte(length, charSet): the position moves before Buffer.from
\* is called.
readMultiByte(c, length, charSet) ==
  IF ~validate(c, length) THEN Throw(c, EOF)
  ELSE LET s == set_position(c, c.position + length)
       IN  IF s.status # OK THEN s
           ELSE IF bufferFromThrows(c.data.buffer, bufferOffset(c) + c.position, length)
           THEN Throw(s.c, RANGE_ERROR)
           ELSE Ok(s.c, <<bufferToString(
                            IF length > 0 THEN getBytes(c.data, c.position, length) ELSE <<>>,
                            charSet)>>)

\* writeMultiByte(value, charSet)
writeMultiByte(c, value, charSet) == writeUint8Array(c, bufferWrite(value, charSet))

(***************************************************************************)
(* writeMultiByte calls, clear, readMultiByte calls (specification         *)
(* SpecMulti)                                                              *)
(*                                                                         *)
(* On a new cursor: writeMultiByte of each string of input.strs with its   *)
(* charset; clear(); readMultiByte of each string's length with its        *)
(* charset.  output keeps the next string's index, the position each call  *)
(* left and the strings read.                                              *)
(***************************************************************************)
MaxStrings == 2

\* "", "A", "test", "yolo", NUL DEL, two strings with U+00E9, and U+20AC
\* "AA" (its three bytes fill the buffer).
MultiByteStrings ==
  {<<>>, <<65>>, <<116, 101, 115, 116>>, <<121, 111, 108, 111>>, <<0, 127>>,
   <<233, 65>>, <<65, 233>>, <<8364, 65, 65>>}

InitMulti ==
  /\ ba = NewByteArray
  /\ last = NoCall
  /\ nops = 0
  /\ pc = "write"
  /\ \E k \in 1..MaxStrings :
       \E strs \in [1..k -> [str : MultiByteStrings, charSet : {"ascii", "utf8"}]] :
          input = [strs |-> strs]
  /\ output = [idx |-> 1, ok |-> TRUE, positions |-> <<>>, reads |-> <<>>]

MultiWrite ==
  /\ pc = "write"
  /\ LET s == input.strs[output.idx]
         to == IF output.idx = Len(input.strs) THEN "clear" ELSE "write"
     IN  Stage("write", to, "writeMultiByte", <<s.str, s.charSet>>,
               writeMultiByte(ba, s.str, s.charSet))
  /\ output' = [output EXCEPT !.idx = IF @ = Len(input.strs) THEN 1 ELSE @ + 1,
                              !.ok = @ /\ last'.status = OK,
                              !.positions = Append(@, ba'.position)]

MultiClear ==
  /\ Stage("clear", "read", "clear", <<>>, clear(ba))
  /\ UNCHANGED output

MultiRead ==
  /\ pc = "read"
  /\ LET s == input.strs[output.idx]
         to == IF output.idx = Len(input.strs) THEN "done" ELSE "read"
     IN  Stage("read", to, "readMultiByte", <<Len(s.str), s.charSet>>,
               readMultiByte(ba, Len(s.str), s.charSet))
  /\ output' = [output EXCEPT !.idx = @ + 1,
                              !.ok = @ /\ last'.status = OK,
                              !.positions = Append(@, ba'.position),
                              !.reads = @ \o last'.value]

NextMulti == MultiWrite \/ MultiClear \/ MultiRead

SpecMulti == InitMulti /\ [][NextMulti]_vars

IsASCII(str) == \A i \in 1..Len(str) : str[i] <= 127

\* The sum of the lengths of the first j strings.
RECURSIVE LengthUpTo(_, _)
LengthUpTo(strs, j) == IF j = 0 THEN 0 ELSE LengthUpTo(strs, j - 1) + Len(strs[j].str)

\* C16: consecutive writeMultiByte calls with ASCII strings s1..sk (charset
\* "ascii" or "utf8") on a new cursor append the strings back to back, each
\* advancing position by the string's length; after clear(),
\* readMultiByte(len(s1)), ..., readMultiByte(len(sk)) with the same
\* charsets return s1..sk in order, each advancing position by the length
\* read.
C16_MultiByteRoundTrip ==
  (\A j \in 1..Len(input.strs) : IsASCII(input.strs[j].str))
    => LET k == Len(input.strs)
       IN  /\ output.ok
           /\ \A j \in 1..Len(output.positions) :
                output.positions[j]
                  = LengthUpTo(input.strs, IF j <= k THEN j ELSE j - k)
           /\ \A j \in 1..Len(output.reads) : output.reads[j] = input.strs[j].str
           /\ pc = "done" => Len(output.reads) = k /\ Len(output.positions) = 2 * k

\* "test" as ascii and "yolo" as utf8 have been written and read back.
C16_Witness ==
  /\ pc = "done"
  /\ input.strs = <<[str |-> <<116, 101, 115, 116>>, charSet |-> "ascii"],
                    [str |-> <<121, 111, 108, 111>>, charSet |-> "utf8"]>>
  /\ output.reads = <<<<116, 101, 115, 116>>, <<121, 111, 108, 111>>>>
  /\ ba.position = 8

(***************************************************************************)
(* validateBuffer through the length setter (checked under Spec)           *)
(***************************************************************************)
\* C17: validateBuffer(n), here length := n, leaves length = max(old
\* length, n) and capacity >= n; when it reallocates (old capacity < n) the
\* new capacity is n + 1024, every logical offset below the old capacity
\* holds the byte it held before and every offset from the old capacity on
\* holds 0.  For every cursor, also one over a region at a nonzero byte
\* offset or shorter than its backing buffer; the reallocation never fails.
C17_ValidateBuffer ==
  [][ (IsCall /\ last'.op = "length")
        => LET n == last'.arg[1]
               old == ba.data.byteLength
           IN  /\ last'.status = OK
               /\ ba'.write_position = Max(ba.write_position, n)
               /\ ba'.data.byteLength >= n
               /\ old < n
                    => /\ ba'.data.byteLength = n + BUFFER_EXT_SIZE
                       /\ \A i \in 0..(old - 1) :
                            getUint8(ba'.data, i) = getUint8(ba.data, i)
                       /\ \A i \in old..(n + BUFFER_EXT_SIZE - 1) :
                            getUint8(ba'.data, i) = 0 ]_vars

(***************************************************************************)
(* Decoder recovery (checked under SpecCodec)                              *)
(***************************************************************************)
\* Continuation bytes a lead byte announces (0 for any other byte).
BytesNeeded(b) ==
  IF b >= 194 /\ b <= 223 THEN 1
  ELSE IF b >= 224 /\ b <= 239 THEN 2
  ELSE IF b >= 240 /\ b <= 244 THEN 3
  ELSE 0

IsContinuation(b) == b >= 128 /\ b <= 191

\* Every byte of bytes from index i on is a non-NUL ASCII byte.
ASCIIFrom(bytes, i) == \A j \in i..Len(bytes) : bytes[j] >= 1 /\ bytes[j] <= 127

\* C18: in lenient mode, when the decoder is inside a multi-byte sequence
\* and the next byte is outside 0x80-0xBF, the state resets, exactly one
\* U+FFFD is emitted for the bytes already consumed and the offending byte
\* is decoded again as a fresh lead byte, contributing its own output once:
\* a lead byte, fewer continuation bytes than it announces, then ASCII
\* characters decode to U+FFFD followed by those characters ([0xE2, 0x41]
\* to U+FFFD 'A').
C18_TruncatedSequenceReplaced ==
  \A m \in 1..MaxBytes :
    (/\ pc = "done"
     /\ input.kind = "decode"
     /\ Len(input.bytes) > m
     /\ BytesNeeded(input.bytes[1]) >= m
     /\ \A j \in 2..m : IsContinuation(input.bytes[j])
     /\ ASCIIFrom(input.bytes, m + 1))
      => output = <<65533>> \o SubSeq(input.bytes, m + 1, Len(input.bytes))

\* The code point a complete sequence of 3 or 4 bytes accumulates.
SequenceValue(bytes) ==
  IF Len(bytes) = 3
  THEN (bytes[1] - 224) * 4096 + (bytes[2] - 128) * 64 + (bytes[3] - 128)
  ELSE (bytes[1] - 240) * 262144 + (bytes[2] - 128) * 4096 + (bytes[3] - 128) * 64
       + (bytes[4] - 128)

\* C19: in lenient mode, when all needed continuation bytes have been
\* accumulated and the code point is below the lead byte's lower boundary
\* (overlong), inside 0xD800-0xDFFF or above 0x10FFFF, the decoder emits
\* exactly one U+FFFD for the sequence and nothing else, and goes on with
\* the next byte in the initial state: such a sequence followed by ASCII
\* characters decodes to U+FFFD followed by those characters.
C19_InvalidSequenceReplaced ==
  \A n \in 3..4 :
    (/\ pc = "done"
     /\ input.kind = "decode"
     /\ Len(input.bytes) >= n
     /\ BytesNeeded(input.bytes[1]) = n - 1
     /\ \A j \in 2..n : IsContinuation(input.bytes[j])
     /\ LET cp == SequenceValue(SubSeq(input.bytes, 1, n))
        IN  \/ cp < (IF n = 3 THEN 2048 ELSE 65536)
            \/ (cp >= 55296 /\ cp <= 57343)
            \/ cp > 1114111
     /\ ASCIIFrom(input.bytes, n + 1))
      => output = <<65533>> \o SubSeq(input.bytes, n + 1, Len(input.bytes))

\* C20: decoding a 0x00 byte in lead position appends one NUL code unit:
\* for every input of ASCII bytes 0x00-0x7F only, the decoded string has as
\* many code units as the input has bytes, and unit i equals byte i.
C20_ASCIIDecodesToItself ==
  (/\ pc = "done"
   /\ input.kind = "decode"
   /\ \A j \in 1..Len(input.bytes) : input.bytes[j] <= 127)
    => output = input.bytes

(***************************************************************************)
(* Length as a high-water mark (checked under Spec)                        *)
(***************************************************************************)
WriteOps ==
  {"writeBoolean", "writeByte", "writeUnsignedByte", "writeShort",
   "writeUnsignedShort", "writeInt", "writeUnsignedInt", "writeFloat",
   "writeDouble", "writeUTF", "writeUTFBytes", "writeUint8Array", "writeBytes"}

\* Calls that replace the storage and set length from the new storage.
StorageOps == {"setBuffer", "setArray", "dataView"}

\* The call just made replaced the storage: one of StorageOps, or readBytes
\* with the cursor itself as destination and no new buffer, which assigns
\* the cursor's dataView.
ReplacedStorage ==
  \/ last'.op \in StorageOps
  \/ last'.op = "readBytes" /\ last'.arg[1].kind = "this" /\ ~last'.arg[4]

\* C21: length (write_position) is a high-water mark.  Across every read,
\* write, position assignment, length assignment and clear() (every call
\* but those that replace the storage through setBuffer, setArray or the
\* dataView setter) length never decreases; after a position assignment that took
\* effect length is at least the assigned position, and after a write that
\* moved the position it is at least the position the write reached;
\* clear() sets position to 0 and leaves length, capacity, endianness and
\* the storage contents unchanged.
C21_LengthHighWaterMark ==
  [][ (IsCall /\ ~ReplacedStorage)
        => /\ ba'.write_position >= ba.write_position
           /\ (last'.op = "position" /\ last'.status = OK)
                => /\ ba'.position = last'.arg[1]
                   /\ ba'.write_position >= last'.arg[1]
           /\ (last'.op \in WriteOps /\ ba'.position # ba.position)
                => ba'.write_position >= ba'.position
           /\ last'.op = "clear"
                => /\ last'.status = OK
                   /\ ba' = [ba EXCEPT !.position = 0] ]_vars

\* writeUnsignedByte(200) on a new cursor moved position and length to 1,
\* and clear() then took position back to 0 with length still 1 and the
\* written byte in place.
C21_Witness ==
  /\ nops = 2
  /\ last.op = "clear"
  /\ ba.position = 0
  /\ ba.write_position = 1
  /\ ba.data.byteLength = BUFFER_EXT_SIZE
  /\ getUint8(ba.data, 0) = 200

====
